---- MODULE Spec2Model ----
(***************************************************************************)
(* A model of the saba_core rendering pipeline of RustBrowser.             *)
(*                                                                         *)
(*   Spec     HtmlParser::construct_tree (renderer/html/parser.rs): the    *)
(*            tree builder, one action per insertion mode, over the DOM    *)
(*            of renderer/dom/node.rs.  The tokens it pulls from           *)
(*            self.t.next() are chosen token by token.                     *)
(***************************************************************************)
EXTENDS Integers, Sequences, FiniteSets, TLC

VARIABLES
    \* HtmlParser (parser.rs:30-50) and the DOM arena it builds
    mode,                     \* HtmlParser.mode
    original_insertion_mode,  \* HtmlParser.original_insertion_mode
    stack_of_open_elements,   \* HtmlParser.stack_of_open_elements (node ids)
    dom,                      \* the Rc<RefCell<Node>> objects, by id; dom[1] is the Document
    token,                    \* the local `token` of construct_tree
    fetched,                  \* number of tokens self.t.next() has yielded so far
    examined,                 \* loop iterations spent on the current token
    pc,                       \* "start" | "loop" | "returned" | "panicked"
    \* HtmlTokenizer (token.rs:70-77)
    input,                    \* HtmlTokenizer.input, a sequence of characters
    state,                    \* HtmlTokenizer.state
    pos,                      \* HtmlTokenizer.pos
    reconsume,                \* HtmlTokenizer.reconsume
    latest_token,             \* HtmlTokenizer.latest_token
    buf,                      \* HtmlTokenizer.buf, a sequence of characters
    emitted,                  \* what the calls of next() returned so far, in order
    tpc,                      \* "ready" | "done" (next() returned None) | "panicked"
    \* CssParser (cssom.rs:14-16)
    css_tokens,               \* the tokens CssParser.t yields, in order
    css_sheet,                \* the stylesheet css_tokens was written from, or NoSheet
    css_result,               \* what parse_stylesheet returned (or how it failed)
    cpc,                      \* "start" | "done"
    \* LayoutView (layout_view.rs:18-20) and what LayoutView::new is given
    document,                 \* the DOM handed to LayoutView::new, by node id; document[1] is the Document
    cssom,                    \* the StyleSheet handed to LayoutView::new: its rules
    layout_objects,           \* the Rc<RefCell<LayoutObject>> objects, by id
    root,                     \* LayoutView.root (an object id, or Nil)
    display_items,            \* what LayoutView::paint returned
    lpc,                      \* "start" | "built" | "painted"
    \* JsRuntime (runtime.rs:90-94) and the Program it executes
    js_program,               \* Program.body: the source elements, in order
    js_index,                 \* how many source elements have been evaluated
    dom_root,                 \* JsRuntime.dom_root: the DOM, by node id
    environments,             \* the Rc<RefCell<Environment>> objects, by id; JsRuntime.env is 1
    functions,                \* JsRuntime.functions
    js_values,                \* what eval returned for each source element
    js_status,                \* "ok" | "panic" | "overflow"
    \* handle_url (main.rs:80-137) and the network it talks to
    url,                      \* the String handle_url is given, a sequence of characters
    parsed_url,               \* what Url::new(url).parse() returned
    requests,                 \* the calls of HttpClient::get so far, in order
    response,                 \* what the calls of HttpClient::get returned, in order
    handle_result,            \* what handle_url returned
    npc,                      \* "start" | "parsed" | "got" | "returned" | "panicked"
    \* Page (page.rs:29-35)
    page_frame,               \* Page.frame: the DOM of the window, or NoFrame
    page_style,               \* Page.style: the rules of the style sheet, or NoStyle
    page_layout_view,         \* Page.layout_view: its objects and its root, or NoLayoutView
    page_display_items,       \* Page.display_items
    received,                 \* the body the latest receive_response was given, or NoBody
    navigations,              \* how often receive_response was called
    page_status,              \* "new" | "received" | "cleared" | "panic" | "overflow"
    \* one call of split_text (layout_object.rs:55-68)
    split_line,               \* its argument line, a sequence of characters
    split_char_width,         \* its argument char_width
    split_lines,              \* what it returned
    spc,                      \* "start" | "returned" | "overflow" (it recurses without end)
    \* JsLexer (js/token.rs:30-33)
    js_input,                 \* JsLexer.input, a sequence of characters
    js_pos,                   \* JsLexer.pos
    js_tokens,                \* what the calls of next() returned so far, in order
    jlpc,                     \* "ready" | "done" (next() returned None) | "panicked"
    \* JsParser (js/ast.rs:145-147) and the locals of parse_ast
    parser_t,                 \* JsParser.t: the tokens of its lexer
    parser_pos,               \* how many of them are consumed
    program_body,             \* body, the source elements parsed so far
    ppc,                      \* "parsing" | "returned" | "hang" | "panicked"
    \* WasabiUI (ui/wasabi/src/app.rs:31-38) and its event loop
    input_mode,               \* WasabiUI.input_mode: "Normal" | "Editing"
    input_url,                \* WasabiUI.input_url, a sequence of characters
    address_bar,              \* what the window shows in the address bar
    content_area,             \* what the window shows below the toolbar: "blank" | "page"
    app_turn,                 \* what run_app calls next: "key" | "mouse"
    last_navigation,          \* how the latest call of handle_url ended: "none" | "ok" | "err"
    app_status                \* "running" | "stopped" (run_app returned the Err)

htmlVars == <<mode, original_insertion_mode, stack_of_open_elements, dom, token,
              fetched, examined, pc>>

tokVars == <<input, state, pos, reconsume, latest_token, buf, emitted, tpc>>

cssVars == <<css_tokens, css_sheet, css_result, cpc>>

layoutVars == <<document, cssom, layout_objects, root, display_items, lpc>>

jsVars == <<js_program, js_index, dom_root, environments, functions, js_values, js_status>>

netVars == <<url, parsed_url, requests, response, handle_result, npc>>

pageVars == <<page_frame, page_style, page_layout_view, page_display_items, received,
              navigations, page_status>>

splitVars == <<split_line, split_char_width, split_lines, spc>>

lexerVars == <<js_input, js_pos, js_tokens, jlpc>>

parserVars == <<parser_t, parser_pos, program_body, ppc>>

appVars == <<input_mode, input_url, address_bar, content_area, app_turn, last_navigation, app_status>>

\* what the tree builder leaves alone
nonHtmlVars == <<tokVars, cssVars, layoutVars, jsVars, netVars, pageVars, splitVars, lexerVars, parserVars, appVars>>

\* what the tokenizer leaves alone
nonTokVars == <<htmlVars, cssVars, layoutVars, jsVars, netVars, pageVars, splitVars, lexerVars, parserVars, appVars>>

\* what the CSS parser leaves alone
nonCssVars == <<htmlVars, tokVars, layoutVars, jsVars, netVars, pageVars, splitVars, lexerVars, parserVars, appVars>>

\* what the layout leaves alone
nonLayoutVars == <<htmlVars, tokVars, cssVars, jsVars, netVars, pageVars, splitVars, lexerVars, parserVars, appVars>>

\* what the JavaScript runtime leaves alone
nonJsVars == <<htmlVars, tokVars, cssVars, layoutVars, netVars, pageVars, splitVars, lexerVars, parserVars, appVars>>

\* what handle_url leaves alone
nonNetVars == <<htmlVars, tokVars, cssVars, layoutVars, jsVars, pageVars, splitVars, lexerVars, parserVars, appVars>>

\* what the page leaves alone
nonPageVars == <<htmlVars, tokVars, cssVars, layoutVars, jsVars, netVars, splitVars, lexerVars, parserVars, appVars>>

\* what split_text leaves alone
nonSplitVars == <<htmlVars, tokVars, cssVars, layoutVars, jsVars, netVars, pageVars, lexerVars, parserVars, appVars>>

\* what the JavaScript lexer leaves alone
nonLexerVars == <<htmlVars, tokVars, cssVars, layoutVars, jsVars, netVars, pageVars, splitVars, parserVars, appVars>>

\* what the JavaScript parser leaves alone
nonParserVars == <<htmlVars, tokVars, cssVars, layoutVars, jsVars, netVars, pageVars, splitVars, lexerVars, appVars>>

\* what the UI leaves alone
nonAppVars == <<htmlVars, tokVars, cssVars, layoutVars, jsVars, netVars, pageVars, splitVars, lexerVars, parserVars>>

vars == <<htmlVars, tokVars, cssVars, layoutVars, jsVars, netVars, pageVars, splitVars, lexerVars, parserVars, appVars>>

(***************************************************************************)
(* Bounds                                                                  *)
(***************************************************************************)
\* the longest token sequence the tokenizer hands to construct_tree
MaxTokens == 6
\* loop iterations of construct_tree followed on one token before the run is cut
MaxExamine == 7

(***************************************************************************)
(* HtmlToken (token.rs:50-65).  None is Option::None.                      *)
(***************************************************************************)
Token(type, tag, self_closing, attributes, c) ==
    [type |-> type, tag |-> tag, self_closing |-> self_closing,
     attributes |-> attributes, c |-> c]
StartTag(tag) == Token("StartTag", tag, FALSE, <<>>, "")
EndTag(tag)   == Token("EndTag", tag, FALSE, <<>>, "")
Char(c)       == Token("Char", "", FALSE, <<>>, c)
Eof           == Token("Eof", "", FALSE, <<>>, "")
None          == Token("None", "", FALSE, <<>>, "")

\* The tokens drawn for the tree builder.  "div" stands for a tag that
\* ElementKind::from_str rejects.  HtmlTokenizer never yields Eof (see
\* is_eof), so the end of the sequence is None.
StartTagNames == {"html", "head", "body", "style", "script", "p", "div"}
EndTagNames   == {"html", "head", "body", "style", "script", "p"}
CharAlphabet  == {"a", " "}
TokenAlphabet ==
    {StartTag(t) : t \in StartTagNames} \cup {EndTag(t) : t \in EndTagNames}
        \cup {Char(c) : c \in CharAlphabet}

(***************************************************************************)
(* DOM nodes (node.rs:23-45).  A reference is a node id, 0 is None or an   *)
(* empty Weak.                                                             *)
(***************************************************************************)
Nil == 0
DocumentId == 1

\* ElementKind::from_str
ElementKindFromStr(s) ==
    IF s \in {"html", "head", "style", "script", "body", "p", "h1", "h2"} THEN s ELSE "Err"

\* Node::new
NewNode(kind, tag, attributes, text) ==
    [kind |-> kind, tag |-> tag, attributes |-> attributes, text |-> text,
     parent |-> Nil, first_child |-> Nil, last_child |-> Nil,
     previous_sibling |-> Nil, next_sibling |-> Nil]

\* Node::get_element_kind: "" is None
GetElementKind(d, n) == IF d[n].kind = "Element" THEN d[n].tag ELSE ""

\* HtmlParser::insert_element / insert_char: the current node
Current(st) == IF st = <<>> THEN DocumentId ELSE st[Len(st)]

\* the loop of insert_element that walks next_sibling to the last sibling
RECURSIVE LastSibling(_, _)
LastSibling(d, n) ==
    IF d[n].next_sibling /= Nil THEN LastSibling(d, d[n].next_sibling) ELSE n

\* insert_element that makes the new node the first child even when the
\* current node already has children
InsertElement_OverwriteFirstChild(d, st, tag, attributes) ==
    LET current == Current(st)
        node    == Len(d) + 1
        d0      == Append(d, NewNode("Element", tag, attributes, ""))
        d1      == [d0 EXCEPT ![current].first_child = node]
        d2      == [d1 EXCEPT ![current].last_child = node, ![node].parent = current]
    IN  IF ElementKindFromStr(tag) = "Err"
        THEN [dom |-> d, stack |-> st, ok |-> FALSE]
        ELSE [dom |-> d2, stack |-> Append(st, node), ok |-> TRUE]

\* insert_element without its set_last_child call
InsertElement_NoLastChild(d, st, tag, attributes) ==
    LET current == Current(st)
        node    == Len(d) + 1
        d0      == Append(d, NewNode("Element", tag, attributes, ""))
        first   == d[current].first_child
        d1      == IF first /= Nil
                   THEN [d0 EXCEPT ![LastSibling(d, first)].next_sibling = node,
                                   ![node].previous_sibling = first]
                   ELSE [d0 EXCEPT ![current].first_child = node]
        d2      == [d1 EXCEPT ![node].parent = current]
    IN  IF ElementKindFromStr(tag) = "Err"
        THEN [dom |-> d, stack |-> st, ok |-> FALSE]
        ELSE [dom |-> d2, stack |-> Append(st, node), ok |-> TRUE]

\* insert_element that makes every new node a child of the Document
InsertElement_ParentIsDocument(d, st, tag, attributes) ==
    LET current == DocumentId
        node    == Len(d) + 1
        d0      == Append(d, NewNode("Element", tag, attributes, ""))
        first   == d[current].first_child
        d1      == IF first /= Nil
                   THEN [d0 EXCEPT ![LastSibling(d, first)].next_sibling = node,
                                   ![node].previous_sibling = first]
                   ELSE [d0 EXCEPT ![current].first_child = node]
        d2      == [d1 EXCEPT ![current].last_child = node, ![node].parent = current]
    IN  IF ElementKindFromStr(tag) = "Err"
        THEN [dom |-> d, stack |-> st, ok |-> FALSE]
        ELSE [dom |-> d2, stack |-> Append(st, node), ok |-> TRUE]

\* HtmlParser::insert_element.  ok is FALSE when Element::new panics.
InsertElement(d, st, tag, attributes) ==
    LET current == Current(st)
        node    == Len(d) + 1
        d0      == Append(d, NewNode("Element", tag, attributes, ""))
        first   == d[current].first_child
        d1      == IF first /= Nil
                   THEN [d0 EXCEPT ![LastSibling(d, first)].next_sibling = node,
                                   ![node].previous_sibling = first]
                   ELSE [d0 EXCEPT ![current].first_child = node]
        d2      == [d1 EXCEPT ![current].last_child = node, ![node].parent = current]
    IN  IF ElementKindFromStr(tag) = "Err"
        THEN [dom |-> d, stack |-> st, ok |-> FALSE]
        ELSE [dom |-> d2, stack |-> Append(st, node), ok |-> TRUE]

\* HtmlParser::contain_in_stack
ContainInStack(d, st, kind) ==
    \E i \in 1..Len(st) : GetElementKind(d, st[i]) = kind

\* HtmlParser::pop_current_node
PopCurrentNode(d, st, kind) ==
    IF st /= <<>> /\ GetElementKind(d, st[Len(st)]) = kind
    THEN [stack |-> SubSeq(st, 1, Len(st) - 1), popped |-> TRUE]
    ELSE [stack |-> st, popped |-> FALSE]

\* the loop of pop_until
RECURSIVE PopLoop(_, _, _)
PopLoop(d, st, kind) ==
    IF st = <<>> THEN st
    ELSE IF GetElementKind(d, st[Len(st)]) = kind THEN SubSeq(st, 1, Len(st) - 1)
    ELSE PopLoop(d, SubSeq(st, 1, Len(st) - 1), kind)

\* HtmlParser::pop_until.  ok is FALSE when its assert! fails.
PopUntil(d, st, kind) ==
    IF ContainInStack(d, st, kind)
    THEN [stack |-> PopLoop(d, st, kind), ok |-> TRUE]
    ELSE [stack |-> st, ok |-> FALSE]

\* HtmlParser::insert_char
InsertChar(d, st, c) ==
    IF st = <<>> THEN [dom |-> d, stack |-> st]
    ELSE
    LET current == st[Len(st)]
        node    == Len(d) + 1
        d0      == Append(d, NewNode("Text", "", <<>>, c))
        first   == d[current].first_child
        d1      == IF first /= Nil
                   THEN [d0 EXCEPT ![first].next_sibling = node,
                                   ![node].previous_sibling = first]
                   ELSE [d0 EXCEPT ![current].first_child = node]
        d2      == [d1 EXCEPT ![current].last_child = node, ![node].parent = current]
    IN  IF d[current].kind = "Text"
        THEN [dom |-> [d EXCEPT ![current].text = @ \o c], stack |-> st]
        ELSE IF c = "\n" \/ c = " "
        THEN [dom |-> d, stack |-> st]
        ELSE [dom |-> d2, stack |-> Append(st, node)]

IsWhitespace(c) == c = " " \/ c = "\n"

(***************************************************************************)
(* construct_tree (parser.rs:230-522)                                      *)
(***************************************************************************)
\* What self.t.next() can return: a further token, or None at the end of
\* the input (and only None once MaxTokens tokens were read).
NextTokens == IF fetched < MaxTokens THEN TokenAlphabet \cup {None} ELSE {None}

\* token = self.t.next(); continue
Consume ==
    \E nt \in NextTokens :
        /\ token' = nt
        /\ fetched' = IF nt = None THEN fetched ELSE fetched + 1
        /\ examined' = 0

\* continue (or fall out of the match) with the same token
Reconsume == token' = token /\ fetched' = fetched /\ examined' = examined + 1

\* return self.window.clone()
Return ==
    /\ pc' = "returned"
    /\ UNCHANGED <<mode, original_insertion_mode, stack_of_open_elements, dom,
                   token, fetched, examined>>

\* a failed assert!/expect aborts the navigation
Panic ==
    /\ pc' = "panicked"
    /\ UNCHANGED <<mode, original_insertion_mode, stack_of_open_elements, dom,
                   token, fetched, examined>>

\* the body of the while loop runs in insertion mode m
InMode(m) ==
    /\ pc = "loop"
    /\ token /= None
    /\ mode = m
    /\ examined < MaxExamine
    /\ UNCHANGED nonHtmlVars

\* let mut token = self.t.next();
Begin ==
    /\ pc = "start"
    /\ pc' = "loop"
    /\ Consume
    /\ UNCHANGED <<mode, original_insertion_mode, stack_of_open_elements, dom>>
    /\ UNCHANGED nonHtmlVars

\* while token.is_some() fails: self.window.clone() is returned
LoopExit ==
    /\ pc = "loop"
    /\ token = None
    /\ Return
    /\ UNCHANGED nonHtmlVars

\* the element is inserted, the mode becomes m2 and the token is consumed
\* or kept
InsertThen(tag, attributes, m2, consume) ==
    LET r == InsertElement(dom, stack_of_open_elements, tag, attributes)
    IN  IF r.ok
        THEN /\ dom' = r.dom
             /\ stack_of_open_elements' = r.stack
             /\ mode' = m2
             /\ IF consume THEN Consume ELSE Reconsume
             /\ UNCHANGED <<original_insertion_mode, pc>>
        ELSE Panic

\* InsertionMode::Initial
ModeInitial ==
    /\ InMode("Initial")
    /\ IF token.type = "Char"
       THEN /\ Consume
            /\ UNCHANGED <<mode, original_insertion_mode, stack_of_open_elements, dom, pc>>
       ELSE /\ mode' = "BeforeHtml"
            /\ Reconsume
            /\ UNCHANGED <<original_insertion_mode, stack_of_open_elements, dom, pc>>

\* InsertionMode::BeforeHtml
ModeBeforeHtml ==
    /\ InMode("BeforeHtml")
    /\ IF token.type = "Char" /\ IsWhitespace(token.c)
       THEN /\ Consume
            /\ UNCHANGED <<mode, original_insertion_mode, stack_of_open_elements, dom, pc>>
       ELSE IF token.type = "StartTag" /\ token.tag = "html"
       THEN InsertThen(token.tag, token.attributes, "BeforeHead", TRUE)
       ELSE IF token.type = "Eof"
       THEN Return
       ELSE InsertThen("html", <<>>, "BeforeHead", FALSE)

\* InsertionMode::BeforeHead
ModeBeforeHead ==
    /\ InMode("BeforeHead")
    /\ IF token.type = "Char" /\ IsWhitespace(token.c)
       THEN /\ Consume
            /\ UNCHANGED <<mode, original_insertion_mode, stack_of_open_elements, dom, pc>>
       ELSE IF token.type = "StartTag" /\ token.tag = "head"
       THEN InsertThen(token.tag, token.attributes, "InHead", TRUE)
       ELSE IF token.type = "Eof"
       THEN Return
       ELSE InsertThen("head", <<>>, "InHead", FALSE)

\* pop_until(kind), then the mode becomes m2 and the token is consumed or kept
PopUntilThen(kind, m2, consume) ==
    LET r == PopUntil(dom, stack_of_open_elements, kind)
    IN  IF r.ok
        THEN /\ stack_of_open_elements' = r.stack
             /\ mode' = m2
             /\ IF consume THEN Consume ELSE Reconsume
             /\ UNCHANGED <<original_insertion_mode, dom, pc>>
        ELSE Panic

\* insert_char(c); token = self.t.next(); continue
InsertCharThenConsume(c) ==
    LET r == InsertChar(dom, stack_of_open_elements, c)
    IN  /\ dom' = r.dom
        /\ stack_of_open_elements' = r.stack
        /\ Consume
        /\ UNCHANGED <<mode, original_insertion_mode, pc>>

\* the token is dropped: token = self.t.next(); continue
Ignore ==
    /\ Consume
    /\ UNCHANGED <<mode, original_insertion_mode, stack_of_open_elements, dom, pc>>

\* the iteration ends with nothing changed: the loop examines the same
\* token in the same mode again
Nothing ==
    /\ Reconsume
    /\ UNCHANGED <<mode, original_insertion_mode, stack_of_open_elements, dom, pc>>

\* InsertionMode::InHead
ModeInHead ==
    /\ InMode("InHead")
    /\ IF token.type = "Char" /\ IsWhitespace(token.c)
       THEN InsertCharThenConsume(token.c)
       ELSE IF token.type = "StartTag" /\ token.tag \in {"style", "script"}
       THEN LET r == InsertElement(dom, stack_of_open_elements, token.tag, token.attributes)
            IN  IF r.ok
                THEN /\ dom' = r.dom
                     /\ stack_of_open_elements' = r.stack
                     /\ original_insertion_mode' = mode
                     /\ mode' = "Text"
                     /\ Consume
                     /\ UNCHANGED pc
                ELSE Panic
       ELSE IF token.type = "StartTag" /\ token.tag = "body"
       THEN PopUntilThen("head", "AfterHead", FALSE)
       ELSE IF token.type = "StartTag" /\ ElementKindFromStr(token.tag) /= "Err"
       THEN PopUntilThen("head", "AfterHead", FALSE)
       ELSE IF token.type = "EndTag" /\ token.tag = "head"
       THEN PopUntilThen("head", "AfterHead", TRUE)
       ELSE IF token.type = "Eof"
       THEN Return
       ELSE Ignore

\* InsertionMode::AfterHead
ModeAfterHead ==
    /\ InMode("AfterHead")
    /\ IF token.type = "Char" /\ IsWhitespace(token.c)
       THEN InsertCharThenConsume(token.c)
       ELSE IF token.type = "StartTag" /\ token.tag = "body"
       THEN InsertThen(token.tag, token.attributes, "InBody", TRUE)
       ELSE IF token.type = "Eof"
       THEN Return
       ELSE InsertThen("body", <<>>, "InBody", FALSE)

\* InsertionMode::InBody
ModeInBody ==
    /\ InMode("InBody")
    /\ IF token.type = "EndTag" /\ token.tag = "body"
       THEN /\ mode' = "AfterBody"
            /\ Consume
            /\ stack_of_open_elements' =
                  IF ContainInStack(dom, stack_of_open_elements, "body")
                  THEN PopUntil(dom, stack_of_open_elements, "body").stack
                  ELSE stack_of_open_elements
            /\ UNCHANGED <<original_insertion_mode, dom, pc>>
       ELSE IF token.type = "EndTag" /\ token.tag = "html"
       THEN LET b == PopCurrentNode(dom, stack_of_open_elements, "body")
                h == PopCurrentNode(dom, b.stack, "html")
            IN  IF b.popped
                THEN IF h.popped
                     THEN /\ mode' = "AfterBody"
                          /\ stack_of_open_elements' = h.stack
                          /\ Reconsume
                          /\ UNCHANGED <<original_insertion_mode, dom, pc>>
                     ELSE Panic
                ELSE Ignore
       ELSE IF token.type = "EndTag"
       THEN Ignore
       ELSE IF token.type = "Eof"
       THEN Return
       ELSE Nothing

\* InsertionMode::Text
ModeText ==
    /\ InMode("Text")
    /\ IF token.type = "Eof"
       THEN Return
       ELSE IF token.type = "EndTag" /\ token.tag = "style"
       THEN PopUntilThen("style", original_insertion_mode, TRUE)
       ELSE IF token.type = "EndTag" /\ token.tag = "script"
       THEN PopUntilThen("script", original_insertion_mode, TRUE)
       ELSE IF token.type = "Char"
       THEN InsertCharThenConsume(token.c)
       ELSE /\ mode' = original_insertion_mode
            /\ Reconsume
            /\ UNCHANGED <<original_insertion_mode, stack_of_open_elements, dom, pc>>

\* InsertionMode::AfterBody
ModeAfterBody ==
    /\ InMode("AfterBody")
    /\ IF token.type = "Char"
       THEN Ignore
       ELSE IF token.type = "EndTag" /\ token.tag = "html"
       THEN /\ mode' = "AfterAfterBody"
            /\ Consume
            /\ UNCHANGED <<original_insertion_mode, stack_of_open_elements, dom, pc>>
       ELSE IF token.type = "Eof"
       THEN Return
       ELSE Nothing

\* InsertionMode::AfterAfterBody
ModeAfterAfterBody ==
    /\ InMode("AfterAfterBody")
    /\ IF token.type = "Char"
       THEN Ignore
       ELSE IF token.type = "Eof"
       THEN Return
       ELSE /\ mode' = "InBody"
            /\ Reconsume
            /\ UNCHANGED <<original_insertion_mode, stack_of_open_elements, dom, pc>>

\* HtmlParser::new (parser.rs:54-62) with Window::new (node.rs:135-145)
HtmlInit ==
    /\ mode = "Initial"
    /\ original_insertion_mode = "Initial"
    /\ stack_of_open_elements = <<>>
    /\ dom = <<NewNode("Document", "", <<>>, "")>>
    /\ token = None
    /\ fetched = 0
    /\ examined = 0
    /\ pc = "start"

HtmlNext ==
    \/ Begin
    \/ LoopExit
    \/ ModeInitial
    \/ ModeBeforeHtml
    \/ ModeBeforeHead
    \/ ModeInHead
    \/ ModeAfterHead
    \/ ModeInBody
    \/ ModeText
    \/ ModeAfterBody
    \/ ModeAfterAfterBody

(***************************************************************************)
(* HtmlTokenizer (token.rs).  A character is a one-character string; the   *)
(* tokenizer is the record [state, pos, reconsume, latest_token, buf].     *)
(***************************************************************************)
LowerLetters == <<"a", "b", "c", "d", "e", "f", "g", "h", "i", "j", "k", "l", "m",
                  "n", "o", "p", "q", "r", "s", "t", "u", "v", "w", "x", "y", "z">>
UpperLetters == <<"A", "B", "C", "D", "E", "F", "G", "H", "I", "J", "K", "L", "M",
                  "N", "O", "P", "Q", "R", "S", "T", "U", "V", "W", "X", "Y", "Z">>

\* char::is_ascii_uppercase, is_ascii_alphabetic, to_ascii_lowercase
IsAsciiUppercase(c) == \E i \in 1..26 : UpperLetters[i] = c
IsAsciiAlphabetic(c) == IsAsciiUppercase(c) \/ \E i \in 1..26 : LowerLetters[i] = c
ToAsciiLowercase(c) ==
    IF IsAsciiUppercase(c)
    THEN LowerLetters[CHOOSE i \in 1..26 : UpperLetters[i] = c]
    ELSE c

\* Attribute::new and Attribute::add_char, as the tokenizer and its tests
\* use them (html/attribute.rs)
NewAttribute == [name |-> "", value |-> ""]
AddChar(a, c, is_name) ==
    IF is_name THEN [a EXCEPT !.name = @ \o c] ELSE [a EXCEPT !.value = @ \o c]

\* HtmlTokenizer::is_eof
IsEofAt(inp, p) == p > Len(inp)

\* HtmlTokenizer::create_tag
CreateTag(start_tag_token) ==
    IF start_tag_token THEN StartTag("") ELSE EndTag("")

\* the outcome of one turn of the loop of next(): go round again, return a
\* token, or abort on a failed assert!, a panic! or an index out of range
Continue(t)   == [k |-> "continue", t |-> t, out |-> None]
Emit(t, tok)  == [k |-> "return",   t |-> t, out |-> tok]
Abort(t)      == [k |-> "panic",    t |-> t, out |-> None]

IsTag(tok) == tok.type \in {"StartTag", "EndTag"}

\* HtmlTokenizer::append_tag_name, then go round again
AppendTagName(t, c) ==
    IF IsTag(t.latest_token)
    THEN Continue([t EXCEPT !.latest_token.tag = @ \o c])
    ELSE Abort(t)

\* HtmlTokenizer::start_new_attribute after the state became st and the
\* character is to be reconsumed
StartNewAttribute(t, st) ==
    IF t.latest_token.type = "StartTag"
    THEN Continue([t EXCEPT !.reconsume = TRUE, !.state = st,
                            !.latest_token.attributes = Append(@, NewAttribute)])
    ELSE Abort(t)

\* HtmlTokenizer::append_attribute, then go round again
AppendAttribute(t, c, is_name) ==
    IF t.latest_token.type = "StartTag" /\ Len(t.latest_token.attributes) > 0
    THEN Continue([t EXCEPT !.latest_token.attributes[Len(t.latest_token.attributes)] =
                                AddChar(@, c, is_name)])
    ELSE Abort(t)

\* self.state = State::Data; return self.take_latest_token()
TakeLatestToken(t) ==
    IF t.latest_token /= None
    THEN Emit([t EXCEPT !.state = "Data", !.latest_token = None], t.latest_token)
    ELSE Abort(t)

\* the match on self.state in next() (token.rs:228-526) for the character c
TokStep(inp, t, c) ==
    LET eof == IsEofAt(inp, t.pos)
        To(st) == Continue([t EXCEPT !.state = st])
        Re(st) == Continue([t EXCEPT !.state = st, !.reconsume = TRUE])
    IN
    CASE t.state = "Data" ->
           IF c = "<" THEN To("TagOpen")
           ELSE IF eof THEN Emit(t, Eof)
           ELSE Emit(t, Char(c))
      [] t.state = "TagOpen" ->
           IF c = "/" THEN To("EndTagOpen")
           ELSE IF IsAsciiAlphabetic(c)
           THEN Continue([t EXCEPT !.reconsume = TRUE, !.state = "TagName",
                                   !.latest_token = CreateTag(TRUE)])
           ELSE IF eof THEN Emit(t, Eof)
           ELSE Re("Data")
      [] t.state = "EndTagOpen" ->
           IF eof THEN Emit(t, Eof)
           ELSE IF IsAsciiAlphabetic(c)
           THEN Continue([t EXCEPT !.reconsume = TRUE, !.state = "TagName",
                                   !.latest_token = CreateTag(FALSE)])
           ELSE Continue(t)
      [] t.state = "TagName" ->
           IF c = " " THEN To("BeforeAttributeName")
           ELSE IF c = "/" THEN To("SelfClosingStartTag")
           ELSE IF c = ">" THEN TakeLatestToken(t)
           ELSE IF IsAsciiUppercase(c) THEN AppendTagName(t, ToAsciiLowercase(c))
           ELSE IF eof THEN Emit(t, Eof)
           ELSE AppendTagName(t, c)
      [] t.state = "BeforeAttributeName" ->
           IF c = "/" \/ c = ">" \/ eof THEN Re("AfterAttributeName")
           ELSE StartNewAttribute(t, "AttributeName")
      [] t.state = "AttributeName" ->
           IF c = " " \/ c = "/" \/ c = ">" \/ eof THEN Re("AfterAttributeName")
           ELSE IF c = "=" THEN To("BeforeAttributeValue")
           ELSE IF IsAsciiUppercase(c) THEN AppendAttribute(t, ToAsciiLowercase(c), TRUE)
           ELSE AppendAttribute(t, c, TRUE)
      [] t.state = "AfterAttributeName" ->
           IF c = " " THEN Continue(t)
           ELSE IF c = "/" THEN To("SelfClosingStartTag")
           ELSE IF c = "=" THEN To("BeforeAttributeValue")
           ELSE IF c = ">" THEN TakeLatestToken(t)
           ELSE IF eof THEN Emit(t, Eof)
           ELSE StartNewAttribute(t, "AttributeName")
      [] t.state = "BeforeAttributeValue" ->
           IF c = " " THEN Continue(t)
           ELSE IF c = "\"" THEN To("AttributeValueDoubleQuoted")
           ELSE IF c = "'" THEN To("AttributeValueSingleQuoted")
           ELSE Re("AttributeValueUnquoted")
      [] t.state = "AttributeValueDoubleQuoted" ->
           IF c = "\"" THEN To("AfterAttributeValueQuoted")
           ELSE IF eof THEN Emit(t, Eof)
           ELSE AppendAttribute(t, c, FALSE)
      [] t.state = "AttributeValueSingleQuoted" ->
           IF c = "'" THEN To("AfterAttributeValueQuoted")
           ELSE IF eof THEN Emit(t, Eof)
           ELSE AppendAttribute(t, c, FALSE)
      [] t.state = "AttributeValueUnquoted" ->
           IF c = " " THEN To("BeforeAttributeName")
           ELSE IF c = ">" THEN TakeLatestToken(t)
           ELSE IF eof THEN Emit(t, Eof)
           ELSE AppendAttribute(t, c, FALSE)
      [] t.state = "AfterAttributeValueQuoted" ->
           IF c = " " THEN To("BeforeAttributeName")
           ELSE IF c = "/" THEN To("SelfClosingStartTag")
           ELSE IF c = ">" THEN TakeLatestToken(t)
           ELSE IF eof THEN Emit(t, Eof)
           ELSE Re("BeforeAttributeValue")
      [] t.state = "SelfClosingStartTag" ->
           IF c = ">"
           THEN IF t.latest_token.type = "StartTag"
                THEN TakeLatestToken([t EXCEPT !.latest_token.self_closing = TRUE])
                ELSE Abort(t)
           ELSE IF eof THEN Emit(t, Eof)
           ELSE Continue(t)
      [] t.state = "ScriptData" ->
           IF c = "<" THEN To("ScriptDataLessThanSign")
           ELSE IF eof THEN Emit(t, Eof)
           ELSE Emit(t, Char(c))
      [] t.state = "ScriptDataLessThanSign" ->
           IF c = "/"
           THEN Continue([t EXCEPT !.buf = <<>>, !.state = "ScriptDataEndTagOpen"])
           ELSE Emit([t EXCEPT !.reconsume = TRUE, !.state = "ScriptData"], Char("<"))
      [] t.state = "ScriptDataEndTagOpen" ->
           IF IsAsciiAlphabetic(c)
           THEN Continue([t EXCEPT !.reconsume = TRUE, !.state = "ScriptDataEndTagName",
                                   !.latest_token = CreateTag(FALSE)])
           ELSE Emit([t EXCEPT !.reconsume = TRUE, !.state = "ScriptData"], Char("<"))
      [] t.state = "ScriptDataEndTagName" ->
           IF c = ">" THEN TakeLatestToken(t)
           ELSE IF IsAsciiAlphabetic(c)
           THEN AppendTagName([t EXCEPT !.buf = Append(@, c)], ToAsciiLowercase(c))
           ELSE Continue([t EXCEPT !.state = "TemporaryBuffer",
                                   !.buf = <<"<", "/">> \o t.buf \o <<c>>])
      [] t.state = "TemporaryBuffer" ->
           IF t.buf = <<>>
           THEN Continue([t EXCEPT !.reconsume = TRUE, !.state = "ScriptData"])
           ELSE Emit([t EXCEPT !.reconsume = TRUE, !.buf = Tail(t.buf)], Char(Head(t.buf)))

\* the loop of next() (token.rs:218-527): read a character with
\* reconsume_input or consume_next_input, then match on the state
RECURSIVE TokLoop(_, _)
TokLoop(inp, t) ==
    LET inRange == IF t.reconsume THEN t.pos >= 1 /\ t.pos <= Len(inp)
                   ELSE t.pos < Len(inp)
        c  == IF t.reconsume THEN inp[t.pos] ELSE inp[t.pos + 1]
        t1 == IF t.reconsume THEN [t EXCEPT !.reconsume = FALSE]
              ELSE [t EXCEPT !.pos = @ + 1]
        r  == TokStep(inp, t1, c)
    IN  IF ~inRange THEN Abort(t)
        ELSE IF r.k = "continue" THEN TokLoop(inp, r.t)
        ELSE r

\* HtmlTokenizer::next (token.rs:214-528)
TokenizerNext(inp, t) ==
    IF t.pos >= Len(inp) THEN Emit(t, None) ELSE TokLoop(inp, t)

Tokenizer == [state |-> state, pos |-> pos, reconsume |-> reconsume,
              latest_token |-> latest_token, buf |-> buf]

\* one call of next() on the tokenizer
TokNext ==
    /\ tpc = "ready"
    /\ LET r == TokenizerNext(input, Tokenizer)
       IN  /\ state' = r.t.state
           /\ pos' = r.t.pos
           /\ reconsume' = r.t.reconsume
           /\ latest_token' = r.t.latest_token
           /\ buf' = r.t.buf
           /\ emitted' = IF r.k = "panic" THEN emitted ELSE Append(emitted, r.out)
           /\ tpc' = IF r.k = "panic" THEN "panicked"
                     ELSE IF r.out = None THEN "done" ELSE "ready"
    /\ UNCHANGED input
    /\ UNCHANGED nonTokVars

\* HtmlTokenizer::new (token.rs:81-90) on the string html
TokNew(html) ==
    /\ input = html
    /\ state = "Data"
    /\ pos = 0
    /\ reconsume = FALSE
    /\ latest_token = None
    /\ buf = <<>>
    /\ emitted = <<>>
    /\ tpc = "ready"

(***************************************************************************)
(* CssParser (css/cssom.rs).  A CSS string is a sequence of characters; a  *)
(* CssToken is [type, v]: v is the string of Ident, HashToken, StringToken *)
(* and AtKeyword, the character of Delim, the number of Number.            *)
(* The parser reads css_tokens through Peekable: p is the index of the     *)
(* tk that peek() shows, past the end when peek() is None.              *)
(***************************************************************************)
CssTok(type, v) == [type |-> type, v |-> v]
NoCssToken == CssTok("None", <<>>)

\* Peekable::peek
Peek(ts, p) == IF p <= Len(ts) THEN ts[p] ELSE NoCssToken

\* Selector
TypeSelector(name)  == [kind |-> "TypeSelector", name |-> name]
ClassSelector(name) == [kind |-> "ClassSelector", name |-> name]
IdSelector(name)    == [kind |-> "IdSelector", name |-> name]
UnknownSelector     == [kind |-> "UnknownSelector", name |-> <<>>]

\* QualifiedRule::new
NewQualifiedRule == [selector |-> TypeSelector(<<>>), declarations |-> <<>>]

\* CssParser::consume_ident: k is "panic" when the tk is missing or is
\* no Ident
ConsumeIdent(ts, p) ==
    IF Peek(ts, p).type = "Ident"
    THEN [k |-> "ok", p |-> p + 1, ident |-> ts[p].v]
    ELSE [k |-> "panic", p |-> p, ident |-> <<>>]

\* while self.t.peek() != Some(&CssToken::OpenCurly) { self.t.next(); }
\* from index p: the index of the next '{', or 0 when there is none and
\* the loop never ends
RECURSIVE SkipToOpenCurly(_, _)
SkipToOpenCurly(ts, p) ==
    IF p > Len(ts) THEN 0
    ELSE IF ts[p].type = "OpenCurly" THEN p
    ELSE SkipToOpenCurly(ts, p + 1)

\* CssParser::consume_selector: k is "ok", "panic" or "hang"
ConsumeSelector(ts, p) ==
    LET tk == Peek(ts, p)
        Sel(k, q, sel) == [k |-> k, p |-> q, sel |-> sel]
    IN
    IF tk = NoCssToken THEN Sel("panic", p, UnknownSelector)
    ELSE IF tk.type = "HashToken"
    THEN IF tk.v = <<>> THEN Sel("panic", p, UnknownSelector)
         ELSE Sel("ok", p + 1, IdSelector(Tail(tk.v)))
    ELSE IF tk.type = "Delim"
    THEN IF tk.v = "."
         THEN LET i == ConsumeIdent(ts, p + 1)
              IN  Sel(i.k, i.p, ClassSelector(i.ident))
         ELSE Sel("panic", p, UnknownSelector)
    ELSE IF tk.type = "Ident"
    THEN IF Peek(ts, p + 1).type = "Colon"
         THEN LET q == SkipToOpenCurly(ts, p + 1)
              IN  IF q = 0 THEN Sel("hang", p, UnknownSelector)
                  ELSE Sel("ok", q, TypeSelector(tk.v))
         ELSE Sel("ok", p + 1, TypeSelector(tk.v))
    ELSE IF tk.type = "AtKeyword"
    THEN LET q == SkipToOpenCurly(ts, p + 1)
         IN  IF q = 0 THEN Sel("hang", p, UnknownSelector)
             ELSE Sel("ok", q, UnknownSelector)
    ELSE Sel("ok", IF p + 1 <= Len(ts) THEN p + 2 ELSE p + 1, UnknownSelector)

\* CssParser::consume_declaration with consume_component_value: some is
\* FALSE when it returns None
ConsumeDeclaration(ts, p) ==
    LET Decl(k, q, some, d) == [k |-> k, p |-> q, some |-> some, declaration |-> d]
        none == [property |-> <<>>, value |-> CssTok("Ident", <<>>)]
        i == ConsumeIdent(ts, p)
    IN
    IF p > Len(ts) THEN Decl("ok", p, FALSE, none)
    ELSE IF i.k /= "ok" THEN Decl(i.k, p, FALSE, none)
    ELSE IF i.p > Len(ts) THEN Decl("ok", i.p, FALSE, none)
    ELSE IF ts[i.p].type /= "Colon" THEN Decl("ok", i.p + 1, FALSE, none)
    ELSE IF i.p + 1 > Len(ts) THEN Decl("panic", i.p + 1, FALSE, none)
    ELSE Decl("ok", i.p + 2, TRUE, [property |-> i.ident, value |-> ts[i.p + 1]])

\* CssParser::consume_list_of_declarations, its loop from index p with the
\* declarations gathered so far
RECURSIVE ConsumeListOfDeclarations(_, _, _)
ConsumeListOfDeclarations(ts, p, declarations) ==
    LET tk == Peek(ts, p)
        Out(k, q) == [k |-> k, p |-> q, declarations |-> declarations]
    IN
    IF tk = NoCssToken THEN Out("ok", p)
    ELSE IF tk.type = "CloseCurly" THEN Out("ok", p + 1)
    ELSE IF tk.type = "SemiColon" THEN ConsumeListOfDeclarations(ts, p + 1, declarations)
    ELSE IF tk.type = "Ident"
    THEN LET d == ConsumeDeclaration(ts, p)
         IN  IF d.k /= "ok" THEN Out(d.k, d.p)
             ELSE ConsumeListOfDeclarations(ts, d.p,
                      IF d.some THEN Append(declarations, d.declaration) ELSE declarations)
    ELSE ConsumeListOfDeclarations(ts, p + 1, declarations)

\* CssParser::consume_qualified_rule, its loop from index p with the rule
\* built so far: some is FALSE when it returns None
RECURSIVE ConsumeQualifiedRule(_, _, _)
ConsumeQualifiedRule(ts, p, rule) ==
    LET tk == Peek(ts, p)
    IN
    IF tk = NoCssToken THEN [k |-> "ok", p |-> p, some |-> FALSE, rule |-> rule]
    ELSE IF tk.type = "OpenCurly"
    THEN LET d == ConsumeListOfDeclarations(ts, p + 1, <<>>)
         IN  [k |-> d.k, p |-> d.p, some |-> TRUE,
              rule |-> [rule EXCEPT !.declarations = d.declarations]]
    ELSE LET s == ConsumeSelector(ts, p)
         IN  IF s.k /= "ok" THEN [k |-> s.k, p |-> s.p, some |-> FALSE, rule |-> rule]
             ELSE ConsumeQualifiedRule(ts, s.p, [rule EXCEPT !.selector = s.sel])

\* consume_list_of_rules that returns as soon as one rule was pushed
ConsumeListOfRules_OnlyFirstRule(ts, p, rules) ==
    LET tk == Peek(ts, p)
        r == ConsumeQualifiedRule(ts, p, NewQualifiedRule)
    IN
    IF tk = NoCssToken THEN [k |-> "ok", rules |-> rules]
    ELSE IF r.k /= "ok" THEN [k |-> r.k, rules |-> rules]
    ELSE IF r.some /\ tk.type /= "AtKeyword"
    THEN [k |-> "ok", rules |-> Append(rules, r.rule)]
    ELSE [k |-> "ok", rules |-> rules]

\* CssParser::consume_list_of_rules, its loop from index p with the rules
\* gathered so far
RECURSIVE ConsumeListOfRules(_, _, _)
ConsumeListOfRules(ts, p, rules) ==
    LET tk == Peek(ts, p)
        r == ConsumeQualifiedRule(ts, p, NewQualifiedRule)
    IN
    IF tk = NoCssToken THEN [k |-> "ok", rules |-> rules]
    ELSE IF r.k /= "ok" THEN [k |-> r.k, rules |-> rules]
    ELSE IF tk.type = "AtKeyword" THEN ConsumeListOfRules(ts, r.p, rules)
    ELSE IF r.some THEN ConsumeListOfRules(ts, r.p, Append(rules, r.rule))
    ELSE [k |-> "ok", rules |-> rules]

\* CssParser::parse_stylesheet: the StyleSheet's rules, or how it failed
ParseStylesheetOf(ts) == ConsumeListOfRules(ts, 1, <<>>)

NoSheet == [rules |-> <<>>, written |-> FALSE, semicolons |-> FALSE]
NoResult == [k |-> "none", rules |-> <<>>]

\* CssParser::new over the token sequence ts
CssNew(ts, sheet) ==
    /\ css_tokens = ts
    /\ css_sheet = sheet
    /\ css_result = NoResult
    /\ cpc = "start"

\* one call of parse_stylesheet
ParseStylesheet ==
    /\ cpc = "start"
    /\ css_result' = ParseStylesheetOf(css_tokens)
    /\ cpc' = "done"
    /\ UNCHANGED <<css_tokens, css_sheet>>
    /\ UNCHANGED nonCssVars

(***************************************************************************)
(* Style resolution and layout (layout/layout_object.rs,                   *)
(* layout/layout_view.rs, dom/api.rs).  The DOM is an arena like dom; in   *)
(* it and in the style sheet a name is a string and a text is a sequence   *)
(* of characters.  layout/computed_style.rs and constants.rs are not part  *)
(* of the source: ComputedStyle, its defaulting and the window constants   *)
(* follow the specification (4.7, 4.8, 6), the constants scaled down.      *)
(***************************************************************************)
CHAR_WIDTH == 2
CHAR_HEIGHT_WITH_PADDING == 3
WINDOW_WIDTH == 10
WINDOW_PADDING == 1
\* the content area is the window without the padding on both sides
CONTENT_AREA_WIDTH == WINDOW_WIDTH - WINDOW_PADDING * 2

\* ComputedStyle::new: no property is set
NewComputedStyle ==
    [background_color |-> "unset", color |-> "unset", display |-> "unset",
     font_size |-> "unset", text_decoration |-> "unset"]

\* Color::from_name, Color::from_code: "Err" for an unknown name or code
ColorFromName(name) ==
    IF name \in {"black", "white", "red", "green", "blue", "grey"} THEN name ELSE "Err"
ColorFromCode(code) ==
    CASE code = "#ff0000" -> "red"
      [] code = "#0000ff" -> "blue"
      [] code = "#ffffff" -> "white"
      [] code = "#000000" -> "black"
      [] OTHER -> "Err"

\* DisplayType::from_str
DisplayTypeFromStr(s) ==
    CASE s = "block"  -> "Block"
      [] s = "inline" -> "Inline"
      [] s = "none"   -> "DisplayNone"
      [] OTHER -> "Err"

\* node.kind() == NodeKind::Element(Element::new(tag, attributes)).  The
\* PartialEq of NodeKind is not part of node.rs; by the specification (3,
\* 4.7) the element of the given kind is the one looked for, so two
\* elements are equal when their kinds are.
NodeKindEqElement(node, tag, attributes) ==
    /\ node.kind = "Element"
    /\ node.tag = tag

\* get_target_element_node that does not look below the node's siblings
RECURSIVE GetTargetElementNode_SiblingsOnly(_, _, _)
GetTargetElementNode_SiblingsOnly(d, n, element_kind) ==
    IF n = Nil THEN Nil
    ELSE IF NodeKindEqElement(d[n], element_kind, <<>>) THEN n
    ELSE GetTargetElementNode_SiblingsOnly(d, d[n].next_sibling, element_kind)

\* get_target_element_node (api.rs:13-41)
RECURSIVE GetTargetElementNode(_, _, _)
GetTargetElementNode(d, n, element_kind) ==
    IF n = Nil THEN Nil
    ELSE IF NodeKindEqElement(d[n], element_kind, <<>>) THEN n
    ELSE LET result1 == GetTargetElementNode(d, d[n].first_child, element_kind)
             result2 == GetTargetElementNode(d, d[n].next_sibling, element_kind)
         IN  IF result1 = Nil THEN result2 ELSE result1

\* LayoutObject::is_node_selected
IsNodeSelected(node, selector) ==
    /\ node.kind = "Element"
    /\ CASE selector.kind = "TypeSelector"  -> node.tag = selector.name
         [] selector.kind = "ClassSelector" ->
                \E i \in 1..Len(node.attributes) :
                    node.attributes[i].name = "class" /\ node.attributes[i].value = selector.name
         [] selector.kind = "IdSelector" ->
                \E i \in 1..Len(node.attributes) :
                    node.attributes[i].name = "id" /\ node.attributes[i].value = selector.name
         [] OTHER -> FALSE

\* one iteration of the loop of LayoutObject::cascading_style
CascadeDeclaration(style, declaration) ==
    LET value == declaration.value
        Or(c, fallback) == IF c = "Err" THEN fallback ELSE c
    IN
    CASE declaration.property = "background-color" ->
            IF value.type = "Ident"
            THEN [style EXCEPT !.background_color = Or(ColorFromName(value.v), "white")]
            ELSE IF value.type = "HashToken"
            THEN [style EXCEPT !.background_color = Or(ColorFromCode(value.v), "white")]
            ELSE style
      [] declaration.property = "color" ->
            IF value.type = "Ident"
            THEN [style EXCEPT !.color = Or(ColorFromName(value.v), "black")]
            ELSE IF value.type = "HashToken"
            THEN [style EXCEPT !.color = Or(ColorFromCode(value.v), "black")]
            ELSE style
      [] declaration.property = "display" ->
            IF value.type = "Ident"
            THEN [style EXCEPT !.display = Or(DisplayTypeFromStr(value.v), "DisplayNone")]
            ELSE style
      [] OTHER -> style

\* cascading_style that keeps a property once it is set
RECURSIVE CascadingStyle_FirstWins(_, _)
CascadingStyle_FirstWins(style, declarations) ==
    IF declarations = <<>> THEN style
    ELSE LET next == CascadeDeclaration(style, Head(declarations))
             kept == [f \in DOMAIN style |-> IF style[f] = "unset" THEN next[f] ELSE style[f]]
         IN  CascadingStyle_FirstWins(kept, Tail(declarations))

\* LayoutObject::cascading_style
RECURSIVE CascadingStyle(_, _)
CascadingStyle(style, declarations) ==
    IF declarations = <<>> THEN style
    ELSE CascadingStyle(CascadeDeclaration(style, Head(declarations)), Tail(declarations))

\* create_layout_object: the loop over cssom.rules
RECURSIVE CascadeRules(_, _, _)
CascadeRules(node, rules, style) ==
    IF rules = <<>> THEN style
    ELSE CascadeRules(node, Tail(rules),
             IF IsNodeSelected(node, Head(rules).selector)
             THEN CascadingStyle(style, Head(rules).declarations)
             ELSE style)

\* ComputedStyle::defaulting (specification 4.7, step 2): has_parent is
\* FALSE when parent_style is None
DefaultingStyle(node, style, has_parent, parent_style) ==
    LET Unset(f) == style[f] = "unset"
        block == node.kind = "Element" /\ node.tag \in {"body", "p", "h1", "h2"}
    IN
    [background_color |-> IF Unset("background_color") THEN "white" ELSE style.background_color,
     color |-> IF ~Unset("color") THEN style.color
               ELSE IF has_parent THEN parent_style.color ELSE "black",
     display |-> IF ~Unset("display") THEN style.display
                 ELSE IF block THEN "Block" ELSE "Inline",
     font_size |-> IF ~Unset("font_size") THEN style.font_size
                   ELSE IF node.kind = "Element" /\ node.tag = "h1" THEN "XXLarge"
                   ELSE IF node.kind = "Element" /\ node.tag = "h2" THEN "XLarge"
                   ELSE IF has_parent THEN parent_style.font_size ELSE "Medium",
     text_decoration |-> IF ~Unset("text_decoration") THEN style.text_decoration
                         ELSE IF has_parent THEN parent_style.text_decoration ELSE "None"]

\* LayoutObject::new with the style and the kind create_layout_object gives it
NewLayoutObject(kind, n, parent, style) ==
    [kind |-> kind, node |-> n, first_child |-> Nil, next_sibling |-> Nil,
     parent |-> parent, style |-> style,
     point |-> [x |-> 0, y |-> 0], size |-> [width |-> 0, height |-> 0]]

\* LayoutObject::update_kind
UpdateKind(node, style) ==
    IF node.kind = "Text" THEN "Text"
    ELSE IF style.display = "Block" THEN "Block" ELSE "Inline"

\* create_layout_object that makes an object whatever the display is
CreateLayoutObject_KeepDisplayNone(d, rules, n, parent_obj, objs) ==
    IF n = Nil THEN [some |-> FALSE, object |-> NewLayoutObject("Block", Nil, Nil, NewComputedStyle)]
    ELSE LET cascaded == CascadeRules(d[n], rules, NewComputedStyle)
             style == DefaultingStyle(d[n], cascaded, parent_obj /= Nil,
                                      IF parent_obj /= Nil THEN objs[parent_obj].style
                                      ELSE NewComputedStyle)
         IN  [some |-> TRUE,
              object |-> NewLayoutObject(UpdateKind(d[n], style), n, parent_obj, style)]

\* create_layout_object (layout_object.rs:510-549): some is FALSE for None
CreateLayoutObject(d, rules, n, parent_obj, objs) ==
    IF n = Nil THEN [some |-> FALSE, object |-> NewLayoutObject("Block", Nil, Nil, NewComputedStyle)]
    ELSE LET cascaded == CascadeRules(d[n], rules, NewComputedStyle)
             style == DefaultingStyle(d[n], cascaded, parent_obj /= Nil,
                                      IF parent_obj /= Nil THEN objs[parent_obj].style
                                      ELSE NewComputedStyle)
         IN  IF style.display = "DisplayNone"
             THEN [some |-> FALSE, object |-> NewLayoutObject("Block", n, parent_obj, style)]
             ELSE [some |-> TRUE,
                   object |-> NewLayoutObject(UpdateKind(d[n], style), n, parent_obj, style)]

\* build_layout_tree: the while loop that follows next_sibling from node
\* until create_layout_object gives an object; Nil when none does
RECURSIVE FirstWithObject(_, _, _, _, _)
FirstWithObject(d, rules, n, parent_obj, objs) ==
    IF n = Nil THEN Nil
    ELSE IF CreateLayoutObject(d, rules, n, parent_obj, objs).some THEN n
    ELSE FirstWithObject(d, rules, d[n].next_sibling, parent_obj, objs)

\* build_layout_tree (layout_view.rs:150-233): the objects with the new
\* ones appended, and the object made for node (or Nil).
\* BuildFromNextSibling is the loop that tries the following siblings when
\* a child or sibling subtree gave no object.
RECURSIVE BuildLayoutTree(_, _, _, _, _)
RECURSIVE BuildFromNextSibling(_, _, _, _, _)
\* build_layout_tree for which a node without an object ends the list of
\* its siblings
BuildLayoutTree_StopsAtHidden(d, rules, node, parent_obj, objs) ==
    IF node = Nil \/ ~CreateLayoutObject(d, rules, node, parent_obj, objs).some
    THEN [objs |-> objs, object |-> Nil]
    ELSE
    LET layout_object == Len(objs) + 1
        created == Append(objs, CreateLayoutObject(d, rules, node, parent_obj, objs).object)
        first_child == BuildLayoutTree(d, rules, d[node].first_child, layout_object, created)
        next_sibling == BuildLayoutTree(d, rules, d[node].next_sibling, Nil, first_child.objs)
    IN  [objs |-> [next_sibling.objs EXCEPT
                      ![layout_object].first_child = first_child.object,
                      ![layout_object].next_sibling = next_sibling.object],
         object |-> layout_object]

BuildLayoutTree(d, rules, node, parent_obj, objs) ==
    LET target_node == FirstWithObject(d, rules, node, parent_obj, objs)
    IN
    IF target_node = Nil THEN [objs |-> objs, object |-> Nil]
    ELSE
    LET layout_object == Len(objs) + 1
        created == Append(objs, CreateLayoutObject(d, rules, target_node, parent_obj, objs).object)
        original_first_child == d[target_node].first_child
        original_next_sibling == d[target_node].next_sibling
        first_child == BuildLayoutTree(d, rules, original_first_child, layout_object, created)
        next_sibling == BuildLayoutTree(d, rules, original_next_sibling, Nil, first_child.objs)
        first_child2 ==
            IF first_child.object = Nil /\ original_first_child /= Nil
            THEN BuildFromNextSibling(d, rules, d[original_first_child].next_sibling,
                                      layout_object, next_sibling.objs)
            ELSE [objs |-> next_sibling.objs, object |-> first_child.object]
        next_sibling2 ==
            IF next_sibling.object = Nil /\ original_next_sibling /= Nil
            THEN BuildFromNextSibling(d, rules, d[original_next_sibling].next_sibling,
                                      Nil, first_child2.objs)
            ELSE [objs |-> first_child2.objs, object |-> next_sibling.object]
    IN  [objs |-> [next_sibling2.objs EXCEPT
                      ![layout_object].first_child = first_child2.object,
                      ![layout_object].next_sibling = next_sibling2.object],
         object |-> layout_object]

BuildFromNextSibling(d, rules, original_dom_node, parent_obj, objs) ==
    LET built == BuildLayoutTree(d, rules, original_dom_node, parent_obj, objs)
    IN  IF built.object = Nil /\ original_dom_node /= Nil
        THEN BuildFromNextSibling(d, rules, d[original_dom_node].next_sibling,
                                  parent_obj, built.objs)
        ELSE built

\* the font ratio compute_size and paint take from the font size
FontRatio(font_size) ==
    CASE font_size = "Medium"  -> 1
      [] font_size = "XLarge"  -> 2
      [] font_size = "XXLarge" -> 3

\* LayoutObject::compute_size for a Block: the sum over the children of
\* the heights that count, from child c on
RECURSIVE BlockHeight(_, _, _)
BlockHeight(objs, c, previous_child_kind) ==
    IF c = Nil THEN 0
    ELSE (IF previous_child_kind = "Block" \/ objs[c].kind = "Block"
          THEN objs[c].size.height ELSE 0)
         + BlockHeight(objs, objs[c].next_sibling, objs[c].kind)

\* LayoutObject::compute_size for an Inline: the sums over the children
RECURSIVE InlineSize(_, _)
InlineSize(objs, c) ==
    IF c = Nil THEN [width |-> 0, height |-> 0]
    ELSE LET rest == InlineSize(objs, objs[c].next_sibling)
         IN  [width |-> objs[c].size.width + rest.width,
              height |-> objs[c].size.height + rest.height]

\* LayoutObject::compute_size (layout_object.rs:321-401)
ComputeSize(d, objs, n, parent_size) ==
    LET o == objs[n]
        ratio == FontRatio(o.style.font_size)
        width == CHAR_WIDTH * ratio * Len(d[o.node].text)
        line_num == IF width % CONTENT_AREA_WIDTH = 0
                    THEN width \div CONTENT_AREA_WIDTH
                    ELSE width \div CONTENT_AREA_WIDTH + 1
    IN
    CASE o.kind = "Block" ->
            [width |-> parent_size.width, height |-> BlockHeight(objs, o.first_child, "Block")]
      [] o.kind = "Inline" -> InlineSize(objs, o.first_child)
      [] o.kind = "Text" ->
            IF width > CONTENT_AREA_WIDTH
            THEN [width |-> CONTENT_AREA_WIDTH,
                  height |-> CHAR_HEIGHT_WITH_PADDING * ratio * line_num]
            ELSE [width |-> width, height |-> CHAR_HEIGHT_WITH_PADDING * ratio]

\* LayoutView::calculate_node_size (layout_view.rs:58-78)
RECURSIVE CalculateNodeSize(_, _, _, _)
CalculateNodeSize(d, objs, n, parent_size) ==
    IF n = Nil THEN objs
    ELSE LET sized == IF objs[n].kind = "Block"
                      THEN [objs EXCEPT ![n].size = ComputeSize(d, objs, n, parent_size)]
                      ELSE objs
             children == CalculateNodeSize(d, sized, sized[n].first_child, sized[n].size)
             siblings == CalculateNodeSize(d, children, children[n].next_sibling, parent_size)
         IN  [siblings EXCEPT ![n].size = ComputeSize(d, siblings, n, parent_size)]

\* LayoutObject::compute_position (layout_object.rs:405-446): has_previous
\* is FALSE when the previous sibling's point and size are None
ComputePosition(kind, parent_point, previous_sibling_kind, has_previous, previous_sibling_point, previous_sibling_size) ==
    IF kind = "Block" \/ previous_sibling_kind = "Block"
    THEN [x |-> parent_point.x,
          y |-> IF has_previous
                THEN previous_sibling_point.y + previous_sibling_size.height
                ELSE parent_point.y]
    ELSE IF kind = "Inline" /\ previous_sibling_kind = "Inline"
    THEN IF has_previous
         THEN [x |-> previous_sibling_point.x + previous_sibling_size.width,
               y |-> previous_sibling_point.y]
         ELSE parent_point
    ELSE parent_point

\* LayoutView::calculate_node_position (layout_view.rs:85-121)
RECURSIVE CalculateNodePosition(_, _, _, _, _, _, _)
CalculateNodePosition(objs, n, parent_point, previous_sibling_kind, has_previous, previous_sibling_point, previous_sibling_size) ==
    IF n = Nil THEN objs
    ELSE LET placed == [objs EXCEPT ![n].point =
                           ComputePosition(objs[n].kind, parent_point, previous_sibling_kind,
                                           has_previous, previous_sibling_point,
                                           previous_sibling_size)]
             children == CalculateNodePosition(placed, placed[n].first_child, placed[n].point,
                                               "Block", FALSE, placed[n].point, placed[n].size)
         IN  CalculateNodePosition(children, children[n].next_sibling, parent_point,
                                   children[n].kind, TRUE, children[n].point, children[n].size)

\* LayoutView::update_layout (layout_view.rs:42-52)
UpdateLayout(d, objs, r) ==
    LET sized == CalculateNodeSize(d, objs, r, [width |-> CONTENT_AREA_WIDTH, height |-> 0])
    IN  CalculateNodePosition(sized, r, [x |-> 0, y |-> 0], "Block", FALSE,
                              [x |-> 0, y |-> 0], [width |-> 0, height |-> 0])

\* str::trim on a sequence of characters
RECURSIVE TrimStart(_)
TrimStart(t) == IF t /= <<>> /\ Head(t) \in {" ", "\n"} THEN TrimStart(Tail(t)) ELSE t
RECURSIVE TrimEnd(_)
TrimEnd(t) ==
    IF t /= <<>> /\ t[Len(t)] \in {" ", "\n"} THEN TrimEnd(SubSeq(t, 1, Len(t) - 1)) ELSE t
Trim(t) == TrimEnd(TrimStart(t))

\* t.replace("\n", " ").split(' ').filter(|s| !s.is_empty()).join(" ")
\* (layout_object.rs:479-484): the words of t with one space between them
RECURSIVE JoinWords(_, _)
JoinWords(t, after_space) ==
    IF t = <<>> THEN <<>>
    ELSE IF Head(t) \in {" ", "\n"}
    THEN (IF after_space THEN <<>> ELSE <<" ">>) \o JoinWords(Tail(t), TRUE)
    ELSE <<Head(t)>> \o JoinWords(Tail(t), FALSE)
PlainText(t) == TrimEnd(JoinWords(t, TRUE))

\* find_index_for_line_break (layout_object.rs:44-51), indices from 0
RECURSIVE FindIndexForLineBreakFrom(_, _, _)
FindIndexForLineBreakFrom(line, i, max_index) ==
    IF i < 0 THEN max_index
    ELSE IF line[i + 1] = " " THEN i
    ELSE FindIndexForLineBreakFrom(line, i - 1, max_index)
FindIndexForLineBreak(line, max_index) ==
    FindIndexForLineBreakFrom(line, max_index - 1, max_index)

\* split_text (layout_object.rs:55-68) returns: it does not when it splits
\* at index 0, where it calls itself with the same line again
RECURSIVE SplitTextReturns(_, _)
SplitTextReturns(line, char_width) ==
    Len(line) * char_width > WINDOW_WIDTH + WINDOW_PADDING
        => LET i == FindIndexForLineBreak(line, (WINDOW_WIDTH + WINDOW_PADDING) \div char_width)
           IN  /\ i > 0
               /\ SplitTextReturns(Trim(SubSeq(line, i + 1, Len(line))), char_width)

\* split_text (layout_object.rs:55-68)
RECURSIVE SplitText(_, _)
RECURSIVE SplitText_SkipsBreakCharacter(_, _)
SplitText_SkipsBreakCharacter(line, char_width) ==
    IF Len(line) * char_width > WINDOW_WIDTH + WINDOW_PADDING
    THEN LET i == FindIndexForLineBreak(line, (WINDOW_WIDTH + WINDOW_PADDING) \div char_width)
         IN  <<SubSeq(line, 1, i)>>
                \o SplitText_SkipsBreakCharacter(SubSeq(line, i + 2, Len(line)), char_width)
    ELSE <<line>>

SplitText(line, char_width) ==
    IF Len(line) * char_width > WINDOW_WIDTH + WINDOW_PADDING
    THEN LET i == FindIndexForLineBreak(line, (WINDOW_WIDTH + WINDOW_PADDING) \div char_width)
         IN  <<SubSeq(line, 1, i)>>
                \o SplitText(Trim(SubSeq(line, i + 1, Len(line))), char_width)
    ELSE <<line>>

\* what split_text is given, before it runs
SplitNew(line, char_width) ==
    /\ split_line = line
    /\ split_char_width = char_width
    /\ split_lines = <<>>
    /\ spc = "start"

\* one call split_text(line, char_width) (layout_object.rs:55-68)
SplitTextCall ==
    /\ spc = "start"
    /\ IF SplitTextReturns(split_line, split_char_width)
       THEN split_lines' = SplitText(split_line, split_char_width) /\ spc' = "returned"
       ELSE split_lines' = split_lines /\ spc' = "overflow"
    /\ UNCHANGED <<split_line, split_char_width>>
    /\ UNCHANGED nonSplitVars

\* LayoutObject::paint (layout_object.rs:449-505).  `object` is not a field
\* of DisplayItem: it records which LayoutObject the item was painted for.
Paint(d, objs, n) ==
    LET o == objs[n]
        lines == SplitText(PlainText(d[o.node].text), CHAR_WIDTH * FontRatio(o.style.font_size))
    IN
    IF o.style.display = "DisplayNone" THEN <<>>
    ELSE CASE o.kind = "Block" ->
                 IF d[o.node].kind = "Element"
                 THEN <<[type |-> "Rect", text |-> <<>>, style |-> o.style,
                         layout_point |-> o.point, layout_size |-> o.size, object |-> n]>>
                 ELSE <<>>
           [] o.kind = "Inline" -> <<>>
           [] o.kind = "Text" ->
                 IF d[o.node].kind = "Text"
                 THEN [i \in 1..Len(lines) |->
                         [type |-> "Text", text |-> lines[i], style |-> o.style,
                          layout_point |-> [x |-> o.point.x,
                                            y |-> o.point.y + CHAR_HEIGHT_WITH_PADDING * (i - 1)],
                          layout_size |-> [width |-> 0, height |-> 0], object |-> n]]
                 ELSE <<>>

\* LayoutView::paint_node that paints the siblings before the children
RECURSIVE PaintNode_SiblingsFirst(_, _, _)
PaintNode_SiblingsFirst(d, objs, n) ==
    IF n = Nil THEN <<>>
    ELSE Paint(d, objs, n) \o PaintNode_SiblingsFirst(d, objs, objs[n].next_sibling)
                            \o PaintNode_SiblingsFirst(d, objs, objs[n].first_child)

\* LayoutView::paint_node (layout_view.rs:125-136)
RECURSIVE PaintNode(_, _, _)
PaintNode(d, objs, n) ==
    IF n = Nil THEN <<>>
    ELSE Paint(d, objs, n) \o PaintNode(d, objs, objs[n].first_child)
                            \o PaintNode(d, objs, objs[n].next_sibling)

\* the objects reached from n by first_child and next_sibling links
RECURSIVE Reached(_, _)
Reached(objs, n) ==
    IF n = Nil THEN {}
    ELSE {n} \cup Reached(objs, objs[n].first_child) \cup Reached(objs, objs[n].next_sibling)

\* what LayoutView::new is given, before it runs
LayoutNew(d, rules) ==
    /\ document = d
    /\ cssom = rules
    /\ layout_objects = <<>>
    /\ root = Nil
    /\ display_items = <<>>
    /\ lpc = "start"

\* LayoutView::new (layout_view.rs:23-33)
LayoutViewNew ==
    /\ lpc = "start"
    /\ LET body_root == GetTargetElementNode(document, DocumentId, "body")
           tree == BuildLayoutTree(document, cssom, body_root, Nil, <<>>)
       IN  /\ root' = tree.object
           /\ layout_objects' = UpdateLayout(document, tree.objs, tree.object)
    /\ lpc' = "built"
    /\ UNCHANGED <<document, cssom, display_items>>
    /\ UNCHANGED nonLayoutVars

\* LayoutView::paint (layout_view.rs:139-143); "overflow" when split_text
\* of some text does not return
LayoutViewPaint ==
    /\ lpc = "built"
    /\ IF \A n \in Reached(layout_objects, root) :
              layout_objects[n].kind = "Text"
                  => SplitTextReturns(PlainText(document[layout_objects[n].node].text),
                                      CHAR_WIDTH * FontRatio(layout_objects[n].style.font_size))
       THEN /\ display_items' = PaintNode(document, layout_objects, root)
            /\ lpc' = "painted"
       ELSE /\ display_items' = display_items
            /\ lpc' = "overflow"
    /\ UNCHANGED <<document, cssom, layout_objects, root>>
    /\ UNCHANGED nonLayoutVars

(***************************************************************************)
(* The JavaScript runtime (js/runtime.rs)                                  *)
(***************************************************************************)
\* RuntimeValue, and None for the Option around it
NoValue == [type |-> "None", num |-> 0, str |-> ""]
Number(n) == [type |-> "Number", num |-> n, str |-> ""]
StringValue(t) == [type |-> "StringLiteral", num |-> 0, str |-> t]
HtmlElement(object) == [type |-> "HtmlElement", num |-> object, str |-> ""]

\* js/ast.rs Node; NoNode is the None of Option<Rc<Node>>
NoNode == [type |-> "None"]
ExpressionStatement(expression) == [type |-> "ExpressionStatement", expression |-> expression]
AdditiveExpression(operator, left, right) ==
    [type |-> "AdditiveExpression", operator |-> operator, left |-> left, right |-> right]
AssignmentExpression(operator, left, right) ==
    [type |-> "AssignmentExpression", operator |-> operator, left |-> left, right |-> right]
MemberExpression(object, property) ==
    [type |-> "MemberExpression", object |-> object, property |-> property]
NumericLiteral(n) == [type |-> "NumericLiteral", value |-> n]
VariableDeclaration(declarations) ==
    [type |-> "VariableDeclaration", declarations |-> declarations]
VariableDeclarator(id, init) == [type |-> "VariableDeclarator", id |-> id, init |-> init]
Identifier(name) == [type |-> "Identifier", name |-> name]
StringLiteral(value) == [type |-> "StringLiteral", value |-> value]
BlockStatement(body) == [type |-> "BlockStatement", body |-> body]
ReturnStatement(argument) == [type |-> "ReturnStatement", argument |-> argument]
FunctionDeclaration(id, params, body) ==
    [type |-> "FunctionDeclaration", id |-> id, params |-> params, body |-> body]
CallExpression(callee, arguments) ==
    [type |-> "CallExpression", callee |-> callee, arguments |-> arguments]

\* Environment::new
NewEnvironment(outer) == [variables |-> <<>>, outer |-> outer]

\* the first variable of the scope named name: its index, 0 when there is none
RECURSIVE FirstVariable(_, _, _)
FirstVariable(variables, name, i) ==
    IF i > Len(variables) THEN 0
    ELSE IF variables[i].name = name THEN i
    ELSE FirstVariable(variables, name, i + 1)

\* Environment::get_variable (runtime.rs:41-53)
RECURSIVE GetVariable(_, _, _)
GetVariable(envs, env, name) ==
    LET i == FirstVariable(envs[env].variables, name, 1)
    IN  IF i /= 0 THEN envs[env].variables[i].value
        ELSE IF envs[env].outer /= Nil THEN GetVariable(envs, envs[env].outer, name)
        ELSE NoValue

\* Environment::add_variable (runtime.rs:57-59)
AddVariable(envs, env, name, value) ==
    [envs EXCEPT ![env].variables = Append(@, [name |-> name, value |-> value])]

\* Environment::update_variable (runtime.rs:63-72)
UpdateVariable(envs, env, name, value) ==
    LET variables == envs[env].variables
        i == FirstVariable(variables, name, 1)
    IN  IF i = 0 THEN envs
        ELSE [envs EXCEPT ![env].variables =
                 Append(SubSeq(variables, 1, i - 1) \o SubSeq(variables, i + 1, Len(variables)),
                        [name |-> name, value |-> value])]

\* format!("{}", value) of a u64
RECURSIVE NumberToString(_)
NumberToString(n) ==
    LET digit == <<"0", "1", "2", "3", "4", "5", "6", "7", "8", "9">>[(n % 10) + 1]
    IN  IF n < 10 THEN digit ELSE NumberToString(n \div 10) \o digit

\* impl Display for RuntimeValue (runtime.rs:352-366)
RuntimeValueToString(value) ==
    CASE value.type = "Number" -> NumberToString(value.num)
      [] value.type = "StringLiteral" -> value.str
      [] OTHER -> "HtmlElement: " \o NumberToString(value.num)

\* impl Add for RuntimeValue (runtime.rs:327-336)
RuntimeAdd(left, right) ==
    IF left.type = "Number" /\ right.type = "Number"
    THEN Number(left.num + right.num)
    ELSE StringValue(RuntimeValueToString(left) \o RuntimeValueToString(right))

\* impl Sub for RuntimeValue (runtime.rs:339-349), for left_num >= right_num
RuntimeSub(left, right) ==
    IF left.type = "Number" /\ right.type = "Number"
    THEN Number(left.num - right.num)
    ELSE Number(0)

\* left_num - right_num leaves u64
SubOverflows(left, right) ==
    left.type = "Number" /\ right.type = "Number" /\ left.num < right.num

\* the last function of the list whose id is the string callee_value, 0
\* when there is none (runtime.rs:243-250)
RECURSIVE FindFunction(_, _, _)
FindFunction(fs, callee_value, i) ==
    IF i = 0 THEN 0
    ELSE IF callee_value = StringValue(fs[i].id) THEN i
    ELSE FindFunction(fs, callee_value, i - 1)

\* get_element_by_id (api.rs:62-84)
RECURSIVE GetElementById(_, _, _)
GetElementById(d, n, id_name) ==
    IF n = Nil THEN Nil
    ELSE IF /\ d[n].kind = "Element"
            /\ \E i \in 1..Len(d[n].attributes) :
                  d[n].attributes[i].name = "id" /\ d[n].attributes[i].value = id_name
    THEN n
    ELSE LET result1 == GetElementById(d, d[n].first_child, id_name)
             result2 == GetElementById(d, d[n].next_sibling, id_name)
         IN  IF result1 = Nil THEN result2 ELSE result1

\* the runtime as eval threads it: r is [value, envs, functions, status]
Result(value, envs, fs, status) ==
    [value |-> value, envs |-> envs, functions |-> fs, status |-> status]

\* JsRuntime::eval (runtime.rs:113-272).  EvalEach is a for loop over
\* nodes that keeps the last value, BindArguments the loop over the
\* arguments of a call (runtime.rs:259-267).
RECURSIVE Eval(_, _, _, _, _)
RECURSIVE EvalEach(_, _, _, _, _, _)
RECURSIVE BindArguments(_, _, _, _, _, _, _)
Eval(d, node, env, envs, fs) ==
    CASE node.type = "None" -> Result(NoValue, envs, fs, "ok")
      [] node.type = "ExpressionStatement" -> Eval(d, node.expression, env, envs, fs)
      [] node.type = "AdditiveExpression" ->
            LET left == Eval(d, node.left, env, envs, fs)
                right == Eval(d, node.right, env, left.envs, left.functions)
            IN  IF left.status /= "ok" \/ left.value = NoValue THEN left
                ELSE IF right.status /= "ok" \/ right.value = NoValue THEN right
                ELSE IF node.operator = "+"
                THEN [right EXCEPT !.value = RuntimeAdd(left.value, right.value)]
                ELSE IF node.operator = "-"
                THEN IF SubOverflows(left.value, right.value)
                     THEN [right EXCEPT !.value = NoValue, !.status = "overflow"]
                     ELSE [right EXCEPT !.value = RuntimeSub(left.value, right.value)]
                ELSE [right EXCEPT !.value = NoValue]
      [] node.type = "AssignmentExpression" ->
            IF node.operator /= "=" THEN Result(NoValue, envs, fs, "ok")
            ELSE IF node.left.type = "Identifier"
            THEN LET new_value == Eval(d, node.right, env, envs, fs)
                 IN  IF new_value.status /= "ok" THEN new_value
                     ELSE Result(NoValue,
                                 UpdateVariable(new_value.envs, env, node.left.name, new_value.value),
                                 new_value.functions, "ok")
            ELSE Result(NoValue, envs, fs, "ok")
      [] node.type = "MemberExpression" ->
            LET object_value == Eval(d, node.object, env, envs, fs)
                property_value == Eval(d, node.property, env, object_value.envs,
                                       object_value.functions)
            IN  IF object_value.status /= "ok" \/ object_value.value = NoValue
                THEN object_value
                ELSE IF property_value.status /= "ok" THEN property_value
                ELSE IF property_value.value = NoValue
                THEN [property_value EXCEPT !.value = object_value.value]
                ELSE [property_value EXCEPT !.value =
                         RuntimeAdd(RuntimeAdd(object_value.value, StringValue(".")),
                                    property_value.value)]
      [] node.type = "NumericLiteral" -> Result(Number(node.value), envs, fs, "ok")
      [] node.type = "VariableDeclaration" ->
            [EvalEach(d, node.declarations, 1, env, envs, fs) EXCEPT !.value = NoValue]
      [] node.type = "VariableDeclarator" ->
            IF node.id.type = "Identifier"
            THEN LET init == Eval(d, node.init, env, envs, fs)
                 IN  IF init.status /= "ok" THEN init
                     ELSE Result(NoValue, AddVariable(init.envs, env, node.id.name, init.value),
                                 init.functions, "ok")
            ELSE Result(NoValue, envs, fs, "ok")
      [] node.type = "Identifier" ->
            LET v == GetVariable(envs, env, node.name)
            IN  Result(IF v /= NoValue THEN v ELSE StringValue(node.name), envs, fs, "ok")
      [] node.type = "StringLiteral" -> Result(StringValue(node.value), envs, fs, "ok")
      [] node.type = "BlockStatement" -> EvalEach(d, node.body, 1, env, envs, fs)
      [] node.type = "ReturnStatement" -> Eval(d, node.argument, env, envs, fs)
      [] node.type = "FunctionDeclaration" ->
            LET id == Eval(d, node.id, env, envs, fs)
            IN  IF id.status /= "ok" THEN id
                ELSE IF id.value.type = "StringLiteral"
                THEN Result(NoValue, id.envs,
                            Append(id.functions, [id |-> id.value.str, params |-> node.params,
                                                  body |-> node.body]), "ok")
                ELSE [id EXCEPT !.value = NoValue]
      [] node.type = "CallExpression" ->
            LET new_env == Len(envs) + 1
                callee_value == Eval(d, node.callee, new_env,
                                     Append(envs, NewEnvironment(env)), fs)
                f == FindFunction(callee_value.functions, callee_value.value,
                                  Len(callee_value.functions))
                function == callee_value.functions[f]
                bound == BindArguments(d, function.params, node.arguments, 1, new_env,
                                       callee_value.envs, callee_value.functions)
            IN  IF callee_value.status /= "ok" \/ callee_value.value = NoValue
                THEN callee_value
                ELSE IF f = 0 THEN [callee_value EXCEPT !.value = NoValue, !.status = "panic"]
                ELSE IF Len(node.arguments) /= Len(function.params)
                THEN [callee_value EXCEPT !.value = NoValue, !.status = "panic"]
                ELSE IF bound.status /= "ok" THEN bound
                ELSE Eval(d, function.body, new_env, bound.envs, bound.functions)

EvalEach(d, nodes, i, env, envs, fs) ==
    IF i > Len(nodes) THEN Result(NoValue, envs, fs, "ok")
    ELSE LET result == Eval(d, nodes[i], env, envs, fs)
         IN  IF result.status /= "ok" \/ i = Len(nodes) THEN result
             ELSE EvalEach(d, nodes, i + 1, env, result.envs, result.functions)

BindArguments(d, params, arguments, i, new_env, envs, fs) ==
    IF i > Len(arguments) THEN Result(NoValue, envs, fs, "ok")
    ELSE LET name == Eval(d, params[i], new_env, envs, fs)
             item == Eval(d, arguments[i], new_env, name.envs, name.functions)
         IN  IF name.status /= "ok" THEN name
             ELSE IF name.value.type /= "StringLiteral"
             THEN BindArguments(d, params, arguments, i + 1, new_env, name.envs, name.functions)
             ELSE IF item.status /= "ok" THEN item
             ELSE BindArguments(d, params, arguments, i + 1, new_env,
                                AddVariable(item.envs, new_env, name.value.str, item.value),
                                item.functions)

\* JsRuntime::call_browser_api (runtime.rs:283-310): [called, value] and
\* the runtime after the argument was evaluated
CallBrowserApi(d, func, arguments, env, envs, fs) ==
    IF func = StringValue("document.getElementById")
    THEN LET arg == Eval(d, arguments[1], env, envs, fs)
             target == GetElementById(d, DocumentId, RuntimeValueToString(arg.value))
         IN  IF arg.status /= "ok" \/ arg.value = NoValue
             THEN [called |-> TRUE, result |-> [arg EXCEPT !.value = NoValue]]
             ELSE IF target = Nil
             THEN [called |-> TRUE, result |-> [arg EXCEPT !.value = NoValue]]
             ELSE [called |-> TRUE, result |-> [arg EXCEPT !.value = HtmlElement(target)]]
    ELSE [called |-> FALSE, result |-> Result(NoValue, envs, fs, "ok")]

\* JsRuntime::new (runtime.rs:97-103) and the program it is to execute
JsRuntimeNew(d, program) ==
    /\ js_program = program
    /\ js_index = 0
    /\ dom_root = d
    /\ environments = <<NewEnvironment(Nil)>>
    /\ functions = <<>>
    /\ js_values = <<>>
    /\ js_status = "ok"

\* JsRuntime::execute (runtime.rs:106-110): one turn of its loop, the value
\* of the source element kept as the tests of the runtime do
JsRuntimeExecute ==
    /\ js_status = "ok"
    /\ js_index < Len(js_program)
    /\ LET result == Eval(dom_root, js_program[js_index + 1], 1, environments, functions)
       IN  /\ environments' = result.envs
           /\ functions' = result.functions
           /\ js_values' = Append(js_values, result.value)
           /\ js_status' = result.status
    /\ js_index' = js_index + 1
    /\ UNCHANGED <<js_program, dom_root>>
    /\ UNCHANGED nonJsVars

(***************************************************************************)
(* Url (url.rs) and handle_url (main.rs:80-137).  A String is a sequence   *)
(* of characters.  The network is the environment: each call of            *)
(* HttpClient::get is recorded in requests and what it returns is drawn    *)
(* from Replies.  HttpResponse (saba_core/src/http.rs) is not part of the  *)
(* sources at hand; a response is the record of what its accessors         *)
(* status_code, header_value("Location") and body return.                  *)
(***************************************************************************)
HttpScheme == <<"h", "t", "t", "p", ":", "/", "/">>

\* str::contains (url.rs:43)
Contains(s, pat) ==
    \E i \in 1..(Len(s) - Len(pat) + 1) : SubSeq(s, i, i + Len(pat) - 1) = pat

\* str::trim_start_matches (url.rs:53): the prefix is removed as often as it matches
RECURSIVE TrimStartMatches(_, _)
TrimStartMatches(s, pat) ==
    IF Len(pat) > 0 /\ Len(s) >= Len(pat) /\ SubSeq(s, 1, Len(pat)) = pat
    THEN TrimStartMatches(SubSeq(s, Len(pat) + 1, Len(s)), pat)
    ELSE s

\* str::find (url.rs:56): the index of the first c in s, or 0 for None
FindChar(s, c) ==
    IF \E i \in 1..Len(s) : s[i] = c
    THEN CHOOSE i \in 1..Len(s) : s[i] = c /\ \A j \in 1..(i - 1) : s[j] # c
    ELSE 0

\* str::splitn(2, c) (url.rs:54): at most two parts, split at the first c
SplitN2(s, c) ==
    LET i == FindChar(s, c)
    IN  IF i = 0 THEN <<s>> ELSE <<SubSeq(s, 1, i - 1), SubSeq(s, i + 1, Len(s))>>

\* Url::new (url.rs:17-25)
UrlNew(u) == [url |-> u, host |-> <<>>, port |-> <<>>, path |-> <<>>, searchpart |-> <<>>]

\* Url::is_http (url.rs:42-47)
IsHttp(self) == Contains(self.url, HttpScheme)

\* the url_parts of the extract_ functions (url.rs:51-55)
UrlParts(self) == SplitN2(TrimStartMatches(self.url, HttpScheme), "/")

\* Url::extract_host (url.rs:50-61)
ExtractHost(self) ==
    LET url_parts == UrlParts(self)
        index == FindChar(url_parts[1], ":")
    IN  IF index # 0 THEN SubSeq(url_parts[1], 1, index - 1) ELSE url_parts[1]

\* Url::extract_port (url.rs:64-76)
ExtractPort(self) ==
    LET url_parts == UrlParts(self)
        index == FindChar(url_parts[1], ":")
    IN  IF index # 0 THEN SubSeq(url_parts[1], index + 1, Len(url_parts[1])) ELSE <<"8", "0">>

\* Url::extract_path (url.rs:79-93)
ExtractPath(self) ==
    LET url_parts == UrlParts(self)
    IN  IF Len(url_parts) < 2 THEN <<>> ELSE SplitN2(url_parts[2], "?")[1]

\* Url::extract_searchpart (url.rs:96-114)
ExtractSearchpart(self) ==
    LET url_parts == UrlParts(self)
    IN  IF Len(url_parts) < 2 THEN <<>>
        ELSE LET path_and_searchpart == SplitN2(url_parts[2], "?")
             IN  IF Len(path_and_searchpart) < 2 THEN <<>> ELSE path_and_searchpart[2]

\* Result::Ok and Result::Err
Ok(v) == [ok |-> TRUE, value |-> v]
Err(kind, e) == [ok |-> FALSE, kind |-> kind, error |-> e]

OnlyHttp == "Only HTTP scheme is supported."

\* Url::parse (url.rs:28-39)
UrlParse(self) ==
    IF ~IsHttp(self) THEN Err("String", OnlyHttp)
    ELSE Ok([url |-> self.url,
             host |-> ExtractHost(self),
             port |-> ExtractPort(self),
             path |-> ExtractPath(self),
             searchpart |-> ExtractSearchpart(self)])

\* the value of a decimal digit, or -1
DigitValue(c) ==
    CASE c = "0" -> 0 [] c = "1" -> 1 [] c = "2" -> 2 [] c = "3" -> 3 [] c = "4" -> 4
      [] c = "5" -> 5 [] c = "6" -> 6 [] c = "7" -> 7 [] c = "8" -> 8 [] c = "9" -> 9
      [] OTHER -> -1

RECURSIVE DecimalValue(_)
DecimalValue(s) ==
    IF s = <<>> THEN 0 ELSE 10 * DecimalValue(SubSeq(s, 1, Len(s) - 1)) + DigitValue(s[Len(s)])

\* str::parse::<u16> (main.rs:96, 114): the number, or -1 for Err; an empty
\* string, a string with a character that is no digit and a number above
\* 65535 are errors, one leading + is allowed
ParseU16(s) ==
    LET digits == IF s # <<>> /\ s[1] = "+" THEN Tail(s) ELSE s
    IN  IF digits = <<>> \/ \E i \in 1..Len(digits) : DigitValue(digits[i]) < 0 THEN -1
        ELSE IF DecimalValue(digits) > 65535 THEN -1
        ELSE DecimalValue(digits)

\* the arguments of one call of HttpClient::get (http.rs:20)
Request(host, port, path) == [host |-> host, port |-> port, path |-> path]

\* the header a response does not have
NoHeader == <<"<", "n", "o", "n", "e", ">">>

\* HttpResponse::status_code
StatusCode(res) == res.status_code

\* HttpResponse::header_value("Location")
HeaderValueLocation(res) ==
    IF res.location = NoHeader THEN Err("String", "failed to find Location in headers") ELSE Ok(res.location)

\* what handle_url has not returned yet
NotReturned == [ok |-> FALSE, kind |-> "none", error |-> ""]

\* the state before handle_url(u) is called
NetNew(u) ==
    /\ url = u
    /\ parsed_url = NotReturned
    /\ requests = <<>>
    /\ response = <<>>
    /\ handle_result = NotReturned
    /\ npc = "start"

\* main.rs:82-90
HandleUrlParse ==
    /\ npc = "start"
    /\ parsed_url' = UrlParse(UrlNew(url))
    /\ IF parsed_url'.ok
       THEN npc' = "parsed" /\ UNCHANGED handle_result
       ELSE /\ npc' = "returned"
            /\ handle_result' = Err("UnexpectedInput", "input html is not supported")
    /\ UNCHANGED <<url, requests, response>>
    /\ UNCHANGED nonNetVars

\* main.rs:93-101: the first call of client.get and what the network makes of it
HandleUrlGet(reply) ==
    /\ npc = "parsed"
    /\ LET port == ParseU16(parsed_url.value.port)
       IN  IF port < 0
           THEN npc' = "panicked" /\ UNCHANGED <<requests, response>>
           ELSE /\ requests' = Append(requests, Request(parsed_url.value.host, port, parsed_url.value.path))
                /\ response' = Append(response, reply)
                /\ npc' = "got"
    /\ UNCHANGED <<url, parsed_url, handle_result>>
    /\ UNCHANGED nonNetVars

\* main.rs:102-136: the match on the first response, the redirect included
HandleUrlResponse(reply) ==
    /\ npc = "got"
    /\ LET res == response[1]
       IN  IF ~res.ok
           THEN /\ handle_result' = Err("Network", "failed to get http response")
                /\ npc' = "returned"
                /\ UNCHANGED <<requests, response>>
           ELSE IF StatusCode(res.value) # 302
           THEN /\ handle_result' = Ok(res.value)
                /\ npc' = "returned"
                /\ UNCHANGED <<requests, response>>
           ELSE IF ~HeaderValueLocation(res.value).ok
           THEN /\ handle_result' = Ok(res.value)
                /\ npc' = "returned"
                /\ UNCHANGED <<requests, response>>
           ELSE LET location == HeaderValueLocation(res.value).value
                    redirect_parsed_url == UrlNew(location)
                    port == ParseU16(redirect_parsed_url.port)
                IN  IF port < 0
                    THEN /\ npc' = "panicked"
                         /\ UNCHANGED <<requests, response, handle_result>>
                    ELSE /\ requests' = Append(requests, Request(redirect_parsed_url.host, port, redirect_parsed_url.path))
                         /\ response' = Append(response, reply)
                         /\ handle_result' = IF reply.ok THEN Ok(reply.value) ELSE Err("Network", "")
                         /\ npc' = "returned"
    /\ UNCHANGED <<url, parsed_url>>
    /\ UNCHANGED nonNetVars

(***************************************************************************)
(* Page (page.rs).  The body of a response is the record of what the       *)
(* parsers create_frame and execute_js construct for it return:            *)
(* construct_tree (document), parse_stylesheet (rules) and parse_ast       *)
(* (program).  A LayoutView carries the DOM its objects point into.        *)
(***************************************************************************)
\* None and Some of an Option field
Absent == [some |-> FALSE]
Present(v) == [some |-> TRUE, value |-> v]

\* Page::new (page.rs:38-46)
NewPage == [frame |-> Absent, style |-> Absent, layout_view |-> Absent, display_items |-> <<>>]

\* Page::create_frame (page.rs:90-104)
CreateFrame(page, body) ==
    [page EXCEPT !.frame = Present(body.document), !.style = Present(body.rules)]

\* Page::execute_js (page.rs:63-77): how runtime.execute(&ast) ends, the
\* runtime being a new one
ExecuteJs(page, program) ==
    IF ~page.frame.some THEN "ok"
    ELSE EvalEach(page.frame.value, program, 1, 1, <<NewEnvironment(Nil)>>, <<>>).status

\* the LayoutView of a built tree, its layout updated (layout_view.rs:28-32)
LayoutViewOf(d, tree) ==
    [document |-> d,
     objects |-> UpdateLayout(d, tree.objs, tree.object),
     root |-> tree.object]

\* LayoutView::new (layout_view.rs:23-33) as a value
NewLayoutView(d, rules) ==
    LayoutViewOf(d, BuildLayoutTree(d, rules, GetTargetElementNode(d, DocumentId, "body"),
                                    Nil, <<>>))

\* Page::set_layout_view (page.rs:107-120)
SetLayoutView(page) ==
    IF ~page.frame.some THEN page
    ELSE IF ~page.style.some THEN page
    ELSE [page EXCEPT !.layout_view = Present(NewLayoutView(page.frame.value, page.style.value))]

\* whether LayoutView::paint (layout_view.rs:139-143) returns: split_text of
\* every text does
PaintReturns(view) ==
    \A n \in Reached(view.objects, view.root) :
        view.objects[n].kind = "Text"
            => SplitTextReturns(PlainText(view.document[view.objects[n].node].text),
                                CHAR_WIDTH * FontRatio(view.objects[n].style.font_size))

\* Page::paint_tree (page.rs:123-127)
PaintTree_Extends(page) ==
    IF page.layout_view.some
    THEN LET view == page.layout_view.value
         IN  [page EXCEPT !.display_items = page.display_items \o PaintNode(view.document, view.objects, view.root)]
    ELSE page

PaintTree(page) ==
    IF page.layout_view.some
    THEN LET view == page.layout_view.value
         IN  [page EXCEPT !.display_items = PaintNode(view.document, view.objects, view.root)]
    ELSE page

\* page.rs:60: self.paint_tree(), or the abort ("overflow") of the paint
ThenPaintTree(laid) ==
    IF laid.layout_view.some /\ ~PaintReturns(laid.layout_view.value)
    THEN [page |-> laid, status |-> "overflow"]
    ELSE [page |-> PaintTree(laid), status |-> "received"]

\* page.rs:57-60: what follows self.execute_js(), js being how that ended
\* ("panic" and "overflow" abort the program)
ThenSetLayoutView(framed, js) ==
    IF js # "ok" THEN [page |-> framed, status |-> js]
    ELSE ThenPaintTree(SetLayoutView(framed))

\* page.rs:55-60: what follows self.create_frame(response.body())
ThenExecuteJs(framed, program) == ThenSetLayoutView(framed, ExecuteJs(framed, program))

\* Page::receive_response (page.rs:53-61): the page it leaves and how it ends
ReceiveResponse(page, body) == ThenExecuteJs(CreateFrame(page, body), body.program)

\* the body of the response no navigation has brought yet
NoBody == [document |-> <<>>, rules |-> <<>>, program |-> <<>>]

\* the Page as the variables hold it
ThePage ==
    [frame |-> page_frame, style |-> page_style, layout_view |-> page_layout_view,
     display_items |-> page_display_items]

\* the state after Page::new
PageNew ==
    /\ page_frame = NewPage.frame
    /\ page_style = NewPage.style
    /\ page_layout_view = NewPage.layout_view
    /\ page_display_items = NewPage.display_items
    /\ received = NoBody
    /\ navigations = 0
    /\ page_status = "new"

\* the most calls of receive_response on one Page
MaxNavigations == 3

\* one call of page.receive_response(response), response.body() being body
PageReceiveResponse(body) ==
    /\ navigations < MaxNavigations
    /\ page_status \in {"new", "received", "cleared"}
    /\ \E result \in {ReceiveResponse(ThePage, body)} :
           /\ page_frame' = result.page.frame
           /\ page_style' = result.page.style
           /\ page_layout_view' = result.page.layout_view
           /\ page_display_items' = result.page.display_items
           /\ page_status' = result.status
    /\ received' = body
    /\ navigations' = navigations + 1
    /\ UNCHANGED nonPageVars

\* Page::clear_display_items (page.rs:135-137)
PageClearDisplayItems ==
    /\ page_status = "received"
    /\ page_display_items' = <<>>
    /\ page_status' = "cleared"
    /\ UNCHANGED <<page_frame, page_style, page_layout_view, received, navigations>>
    /\ UNCHANGED nonPageVars

(***************************************************************************)
(* The JavaScript lexer (js/token.rs).  A position is an index from 0 as   *)
(* in the code; the character at position p is input[p + 1].               *)
(***************************************************************************)
\* RESERVED_WEORDS (token.rs:6)
RESERVED_WORDS ==
    <<<<"v", "a", "r">>,
      <<"f", "u", "n", "c", "t", "i", "o", "n">>,
      <<"r", "e", "t", "u", "r", "n">>>>

\* js/token.rs Token
JsToken(type, v) == [type |-> type, v |-> v]
Punctuator(c) == JsToken("Punctuator", c)
Keyword(word) == JsToken("Keyword", word)

JsDigits == {"0", "1", "2", "3", "4", "5", "6", "7", "8", "9"}
JsLetters ==
    {"a", "b", "c", "d", "e", "f", "g", "h", "i", "j", "k", "l", "m", "n", "o", "p", "q",
     "r", "s", "t", "u", "v", "w", "x", "y", "z", "A", "B", "X"}
JsPunctuators == {"+", "-", ";", "=", "(", ")", "{", "}", ",", "."}

\* JsLexer::contains (token.rs:67-79) from character i of the keyword on:
\* "yes", "no", or "panic" when self.input[self.pos + i] is outside the input
RECURSIVE LexerContainsFrom(_, _, _, _)
LexerContainsFrom(in, p, keyword, i) ==
    IF i >= Len(keyword) THEN "yes"
    ELSE IF p + i >= Len(in) THEN "panic"
    ELSE IF keyword[i + 1] # in[p + i + 1] THEN "no"
    ELSE LexerContainsFrom(in, p, keyword, i + 1)

LexerContains(in, p, keyword) == LexerContainsFrom(in, p, keyword, 0)

\* JsLexer::check_reserved_word (token.rs:82-89) from word w on: the word
\* as [k |-> "some", word], [k |-> "none"] or [k |-> "panic"]
RECURSIVE CheckReservedWordFrom(_, _, _)
CheckReservedWordFrom(in, p, w) ==
    IF w > Len(RESERVED_WORDS) THEN [k |-> "none", word |-> <<>>]
    ELSE LET found == LexerContains(in, p, RESERVED_WORDS[w])
         IN  IF found = "panic" THEN [k |-> "panic", word |-> <<>>]
             ELSE IF found = "yes" THEN [k |-> "some", word |-> RESERVED_WORDS[w]]
             ELSE CheckReservedWordFrom(in, p, w + 1)

CheckReservedWord(in, p) == CheckReservedWordFrom(in, p, 1)

\* JsLexer::consume_number (token.rs:46-64): [num, pos]
RECURSIVE ConsumeNumber(_, _, _)
ConsumeNumber(in, p, num) ==
    IF p >= Len(in) THEN [num |-> num, pos |-> p]
    ELSE IF in[p + 1] \in JsDigits
    THEN ConsumeNumber(in, p + 1, num * 10 + DigitValue(in[p + 1]))
    ELSE [num |-> num, pos |-> p]

\* JsLexer::consume_identifier (token.rs:92-107): [result, pos]
RECURSIVE ConsumeIdentifier(_, _, _)
ConsumeIdentifier(in, p, result) ==
    IF p >= Len(in) THEN [result |-> result, pos |-> p]
    ELSE IF in[p + 1] \in JsLetters \cup JsDigits \cup {"$"}
    THEN ConsumeIdentifier(in, p + 1, Append(result, in[p + 1]))
    ELSE [result |-> result, pos |-> p]

\* JsLexer::consume_string (token.rs:110-127) after its self.pos += 1: [result, pos]
RECURSIVE ConsumeString(_, _, _)
ConsumeString(in, p, result) ==
    IF p >= Len(in) THEN [result |-> result, pos |-> p]
    ELSE IF in[p + 1] = "\"" THEN [result |-> result, pos |-> p + 1]
    ELSE ConsumeString(in, p + 1, Append(result, in[p + 1]))

\* the while loop of next (token.rs:140-146): the position of the next
\* character that is neither ' ' nor '\n', Len(in) when there is none
RECURSIVE SkipWhitespace(_, _)
SkipWhitespace(in, p) ==
    IF p >= Len(in) THEN p
    ELSE IF in[p + 1] = " " \/ in[p + 1] = "\n" THEN SkipWhitespace(in, p + 1)
    ELSE p

\* what one call of next ends with
LexerReturn(k, p, tk) == [k |-> k, pos |-> p, token |-> tk]
NoJsToken == JsToken("None", <<>>)

\* JsLexer::next (token.rs:134-174) at position p0: k is "some", "none" or
\* "panic"
LexerNext(in, p0) ==
    IF p0 >= Len(in) THEN LexerReturn("none", p0, NoJsToken)
    ELSE
    LET p == SkipWhitespace(in, p0)
    IN  IF p >= Len(in) THEN LexerReturn("none", p, NoJsToken)
        ELSE
        LET keyword == CheckReservedWord(in, p)
            c == in[p + 1]
        IN  IF keyword.k = "panic" THEN LexerReturn("panic", p, NoJsToken)
            ELSE IF keyword.k = "some"
            THEN LexerReturn("some", p + Len(keyword.word), Keyword(keyword.word))
            ELSE IF c \in JsPunctuators THEN LexerReturn("some", p + 1, Punctuator(c))
            ELSE IF c \in JsDigits
            THEN LexerReturn("some", ConsumeNumber(in, p, 0).pos,
                             JsToken("Number", ConsumeNumber(in, p, 0).num))
            ELSE IF c \in JsLetters \cup {"_", "$"}
            THEN LexerReturn("some", ConsumeIdentifier(in, p, <<>>).pos,
                             JsToken("Identifier", ConsumeIdentifier(in, p, <<>>).result))
            ELSE IF c = "\""
            THEN LexerReturn("some", ConsumeString(in, p + 1, <<>>).pos,
                             JsToken("StringLiteral", ConsumeString(in, p + 1, <<>>).result))
            ELSE LexerReturn("panic", p, NoJsToken)

\* the most tokens a lexer is asked for
MaxJsTokens == 4

\* JsLexer::new (token.rs:37-42)
JsLexerNew(js) ==
    /\ js_input = js
    /\ js_pos = 0
    /\ js_tokens = <<>>
    /\ jlpc = "ready"

\* one call of JsLexer::next
JsLexerNext ==
    /\ jlpc = "ready"
    /\ Len(js_tokens) < MaxJsTokens
    /\ \E result \in {LexerNext(js_input, js_pos)} :
           /\ js_pos' = result.pos
           /\ js_tokens' = IF result.k = "some" THEN Append(js_tokens, result.token) ELSE js_tokens
           /\ jlpc' = CASE result.k = "some" -> "ready"
                        [] result.k = "none" -> "done"
                        [] OTHER -> "panicked"
    /\ UNCHANGED js_input
    /\ UNCHANGED nonLexerVars

(***************************************************************************)
(* The JavaScript parser (js/ast.rs).  The Peekable<JsLexer> is the        *)
(* sequence of the tokens of the lexer and the number of them consumed.    *)
(* Every parsing function returns [k, node, pos]: k is "ok", "hang" (a     *)
(* loop of the function repeats without an end) or "panic" (an assert! or  *)
(* unimplemented! of the function), node what it returned, pos the tokens  *)
(* consumed when it ended.                                                 *)
(***************************************************************************)
Parsed(k, node, p) == [k |-> k, node |-> node, pos |-> p]

\* self.t.peek() with p tokens consumed; NoJsToken is its None
PeekToken(ts, p) == IF p < Len(ts) THEN ts[p + 1] ELSE NoJsToken

\* the node a function builds around what an inner call returned
WithNode(inner, node) ==
    IF inner.k = "ok" THEN Parsed("ok", node, inner.pos) ELSE Parsed(inner.k, NoNode, inner.pos)

RECURSIVE ParseAssignmentExpression(_, _)
RECURSIVE ParseArguments(_, _, _)
RECURSIVE ParseSourceElement(_, _)
RECURSIVE FunctionBodyLoop(_, _, _)

\* JsParser::primary_expression (ast.rs:311-323): the match on the token
PrimaryNode(tk) ==
    CASE tk.type = "Identifier" -> Identifier(tk.v)
      [] tk.type = "StringLiteral" -> StringLiteral(tk.v)
      [] tk.type = "Number" -> NumericLiteral(tk.v)
      [] OTHER -> NoNode

\* JsParser::primary_expression (ast.rs:311-323)
ParsePrimaryExpression(ts, p) ==
    IF p >= Len(ts) THEN Parsed("ok", NoNode, p) ELSE Parsed("ok", PrimaryNode(ts[p + 1]), p + 1)

\* JsParser::identifier (ast.rs:363-373)
ParseIdentifier(ts, p) ==
    IF p >= Len(ts) THEN Parsed("ok", NoNode, p)
    ELSE IF ts[p + 1].type = "Identifier" THEN Parsed("ok", Identifier(ts[p + 1].v), p + 1)
    ELSE Parsed("ok", NoNode, p + 1)

\* member_expression after its primary_expression returned expr (ast.rs:288-303)
MemberAfter(ts, expr, property) ==
    IF PeekToken(ts, expr.pos) = Punctuator(".")
    THEN Parsed("ok", MemberExpression(expr.node, property.node), property.pos)
    ELSE expr

\* JsParser::member_expression (ast.rs:285-304)
ParseMemberExpression(ts, p) ==
    MemberAfter(ts, ParsePrimaryExpression(ts, p),
                ParseIdentifier(ts, ParsePrimaryExpression(ts, p).pos + 1))

\* Node::new_call_expression(expr, self.arguments()) (ast.rs:275)
CallWith(callee, arguments) == WithNode(arguments, CallExpression(callee, arguments.node))

\* left_hand_side_expression after its member_expression returned expr (ast.rs:265-280)
LeftHandSideAfter(ts, expr) ==
    IF PeekToken(ts, expr.pos) = Punctuator("(")
    THEN CallWith(expr.node, ParseArguments(ts, expr.pos + 1, <<>>))
    ELSE expr

\* JsParser::left_hand_side_expression (ast.rs:262-281)
ParseLeftHandSideExpression(ts, p) == LeftHandSideAfter(ts, ParseMemberExpression(ts, p))

\* Node::new_additive_expression(c, left, self.assignment_expression()) (ast.rs:252)
AdditiveWith(c, left, right) == WithNode(right, AdditiveExpression(c, left, right.node))

\* additive_expression after its left side (ast.rs:241-257)
AdditiveAfter(ts, left) ==
    IF left.k # "ok" THEN left
    ELSE IF PeekToken(ts, left.pos) \in {Punctuator("+"), Punctuator("-")}
    THEN AdditiveWith(PeekToken(ts, left.pos).v, left.node,
                      ParseAssignmentExpression(ts, left.pos + 1))
    ELSE left

\* JsParser::additive_expression (ast.rs:237-258)
ParseAdditiveExpression(ts, p) == AdditiveAfter(ts, ParseLeftHandSideExpression(ts, p))

\* Node::new_assignment_expression('=', expr, self.assignment_expression()) (ast.rs:229)
AssignmentWith(left, right) == WithNode(right, AssignmentExpression("=", left, right.node))

\* assignment_expression after its additive_expression returned expr (ast.rs:220-232)
AssignmentAfter(ts, expr) ==
    IF expr.k # "ok" THEN expr
    ELSE IF PeekToken(ts, expr.pos) = Punctuator("=")
    THEN AssignmentWith(expr.node, ParseAssignmentExpression(ts, expr.pos + 1))
    ELSE expr

\* JsParser::assignment_expression (ast.rs:217-233)
ParseAssignmentExpression(ts, p) == AssignmentAfter(ts, ParseAdditiveExpression(ts, p))

\* arguments.push(self.assignment_expression()) and the rest of the loop (ast.rs:502)
ArgumentsPush(ts, arguments, expr) ==
    IF expr.k # "ok" THEN Parsed(expr.k, arguments, expr.pos)
    ELSE ParseArguments(ts, expr.pos, Append(arguments, expr.node))

\* JsParser::arguments (ast.rs:484-507) with p tokens consumed: a
\* punctuator that is neither ')' nor ',' is peeked at and left where it is,
\* and the loop peeks at it again
ParseArguments(ts, p, arguments) ==
    IF p >= Len(ts) THEN Parsed("ok", arguments, p)
    ELSE IF ts[p + 1] = Punctuator(")") THEN Parsed("ok", arguments, p + 1)
    ELSE IF ts[p + 1] = Punctuator(",") THEN ParseArguments(ts, p + 1, arguments)
    ELSE IF ts[p + 1].type = "Punctuator" THEN Parsed("hang", arguments, p)
    ELSE ArgumentsPush(ts, arguments, ParseAssignmentExpression(ts, p))

\* the loop of parameter_list (ast.rs:420-440), as the one of arguments
RECURSIVE ParameterLoop(_, _, _)
ParameterLoop(ts, p, params) ==
    IF p >= Len(ts) THEN Parsed("ok", params, p)
    ELSE IF ts[p + 1] = Punctuator(")") THEN Parsed("ok", params, p + 1)
    ELSE IF ts[p + 1] = Punctuator(",") THEN ParameterLoop(ts, p + 1, params)
    ELSE IF ts[p + 1].type = "Punctuator" THEN Parsed("hang", params, p)
    ELSE ParameterLoop(ts, p + 1, Append(params, ParseIdentifier(ts, p).node))

\* JsParser::parameter_list (ast.rs:407-441)
ParseParameterList(ts, p) ==
    IF p >= Len(ts) THEN Parsed("panic", <<>>, p)
    ELSE IF ts[p + 1] # Punctuator("(") THEN Parsed("panic", <<>>, p + 1)
    ELSE ParameterLoop(ts, p + 1, <<>>)

\* body.push(self.source_element()) and the rest of the loop (ast.rs:474):
\* an element that consumed no token leaves the loop where it was
FunctionBodyPush(ts, p, body, element) ==
    IF element.k # "ok" THEN Parsed(element.k, NoNode, element.pos)
    ELSE IF element.pos = p THEN Parsed("hang", NoNode, p)
    ELSE FunctionBodyLoop(ts, element.pos, Append(body, element.node))

\* the loop of function_body (ast.rs:459-475)
FunctionBodyLoop(ts, p, body) ==
    IF PeekToken(ts, p) = Punctuator("}") THEN Parsed("ok", BlockStatement(body), p + 1)
    ELSE FunctionBodyPush(ts, p, body, ParseSourceElement(ts, p))

\* JsParser::function_body (ast.rs:448-476)
ParseFunctionBody(ts, p) ==
    IF p >= Len(ts) THEN Parsed("panic", NoNode, p)
    ELSE IF ts[p + 1] # Punctuator("{") THEN Parsed("panic", NoNode, p + 1)
    ELSE FunctionBodyLoop(ts, p + 1, <<>>)

\* Node::new_function_declaration(id, params, self.function_body()) (ast.rs:400)
FunctionWith(id, params, body) == WithNode(body, FunctionDeclaration(id, params, body.node))

\* function_declaration after its parameter_list (ast.rs:399-400)
FunctionAfterParams(ts, id, params) ==
    IF params.k # "ok" THEN Parsed(params.k, NoNode, params.pos)
    ELSE FunctionWith(id, params.node, ParseFunctionBody(ts, params.pos))

\* function_declaration after its identifier (ast.rs:398-400)
FunctionAfterId(ts, id) == FunctionAfterParams(ts, id.node, ParseParameterList(ts, id.pos))

\* JsParser::function_declaration (ast.rs:397-401)
ParseFunctionDeclaration(ts, p) == FunctionAfterId(ts, ParseIdentifier(ts, p))

\* JsParser::initializer (ast.rs:379-392): it takes the next token whatever it is
ParseInitializer(ts, p) ==
    IF p >= Len(ts) THEN Parsed("ok", NoNode, p)
    ELSE IF ts[p + 1] = Punctuator("=") THEN ParseAssignmentExpression(ts, p + 1)
    ELSE Parsed("ok", NoNode, p + 1)

\* Node::new_variable_declaration of the one declarator (ast.rs:352-356)
DeclarationWith(id, init) ==
    WithNode(init, VariableDeclaration(<<VariableDeclarator(id, init.node)>>))

\* variable_declaration after its identifier (ast.rs:352)
DeclarationAfterId(ts, ident) == DeclarationWith(ident.node, ParseInitializer(ts, ident.pos))

\* JsParser::variable_declaration (ast.rs:350-357)
ParseVariableDeclaration(ts, p) == DeclarationAfterId(ts, ParseIdentifier(ts, p))

KeywordVar == Keyword(RESERVED_WORDS[1])
KeywordFunction == Keyword(RESERVED_WORDS[2])
KeywordReturn == Keyword(RESERVED_WORDS[3])

\* Node::new_return_statement(self.assignment_expression()) (ast.rs:194)
ReturnWith(argument) == WithNode(argument, ReturnStatement(argument.node))

\* Node::new_expression_statement(self.assignment_expression()) (ast.rs:199)
ExpressionWith(expression) == WithNode(expression, ExpressionStatement(expression.node))

\* the match of statement on the token it peeked at (ast.rs:186-200)
StatementNode(ts, p) ==
    IF ts[p + 1] = KeywordVar THEN ParseVariableDeclaration(ts, p + 1)
    ELSE IF ts[p + 1] = KeywordReturn THEN ReturnWith(ParseAssignmentExpression(ts, p + 1))
    ELSE IF ts[p + 1].type = "Keyword" THEN Parsed("ok", NoNode, p)
    ELSE ExpressionWith(ParseAssignmentExpression(ts, p))

\* the end of statement (ast.rs:202-211): a ';' is consumed
StatementEnd(ts, node) ==
    IF node.k = "ok" /\ PeekToken(ts, node.pos) = Punctuator(";")
    THEN Parsed("ok", node.node, node.pos + 1)
    ELSE node

\* JsParser::statement (ast.rs:180-213)
ParseStatement(ts, p) ==
    IF p >= Len(ts) THEN Parsed("ok", NoNode, p) ELSE StatementEnd(ts, StatementNode(ts, p))

\* JsParser::source_element (ast.rs:327-345)
ParseSourceElement(ts, p) ==
    IF p >= Len(ts) THEN Parsed("ok", NoNode, p)
    ELSE IF ts[p + 1] = KeywordFunction THEN ParseFunctionDeclaration(ts, p + 1)
    ELSE ParseStatement(ts, p)

\* JsParser::new (ast.rs:151-153) and the first lines of parse_ast (ast.rs:159-160)
JsParserNew(t) ==
    /\ parser_t = t
    /\ parser_pos = 0
    /\ program_body = <<>>
    /\ ppc = "parsing"

\* one turn of the loop of parse_ast (ast.rs:163-174): a source element is
\* pushed, or parse_ast returns the Program
ParseAstStep ==
    /\ ppc = "parsing"
    /\ \E element \in {ParseSourceElement(parser_t, parser_pos)} :
           /\ parser_pos' = element.pos
           /\ program_body' = IF element.k = "ok" /\ element.node # NoNode
                              THEN Append(program_body, element.node)
                              ELSE program_body
           /\ ppc' = CASE element.k = "hang" -> "hang"
                       [] element.k = "panic" -> "panicked"
                       [] element.node = NoNode -> "returned"
                       [] OTHER -> "parsing"
    /\ UNCHANGED parser_t
    /\ UNCHANGED nonParserVars

(***************************************************************************)
(* The UI (ui/wasabi/src/app.rs).  The window is what it shows in the      *)
(* address bar and in the content area; its drawing calls succeed.         *)
(* handle_url is the function main hands to start(): it returns Err for a  *)
(* URL that does not parse and what the network makes of the request       *)
(* otherwise.                                                              *)
(***************************************************************************)
\* the 200 responses and the error of the network
AppReplies ==
    {Err("Network", "failed to get http response"),
     Ok([status_code |-> 200, location |-> NoHeader, body |-> "one"])}

\* what handle_url(destination) can return (main.rs:80-137)
HandleUrlReturns(destination) ==
    IF ~UrlParse(UrlNew(destination)).ok
    THEN {Err("UnexpectedInput", "input html is not supported")}
    ELSE AppReplies

\* WasabiUI::new (app.rs:50-66), and run_app about to call handle_key_input
WasabiUINew ==
    /\ input_mode = "Normal"
    /\ input_url = <<>>
    /\ address_bar = <<>>
    /\ content_area = "blank"
    /\ app_turn = "key"
    /\ last_navigation = "none"
    /\ app_status = "running"

\* WasabiUI::start_navigation (app.rs:323-343) with what handle_url
\* returned: the content area is cleared, then the page is drawn, or the
\* Err is returned, which `?` hands on to run_app and run_app to start()
StartNavigation(result) ==
    /\ content_area' = IF result.ok THEN "page" ELSE "blank"
    /\ last_navigation' = IF result.ok THEN "ok" ELSE "err"
    /\ app_status' = IF result.ok THEN "running" ELSE "stopped"

\* the keys Api::read_key returns, NoKey for None
EnterKey == "\n"
DeleteKey == "DEL"
NoKey == "None"

\* WasabiUI::handle_key_input (app.rs:215-248) as run_app calls it (app.rs:142)
HandleKeyInput(c, result) ==
    /\ app_status = "running"
    /\ app_turn = "key"
    /\ app_turn' = "mouse"
    /\ IF input_mode = "Normal" \/ c = NoKey
       THEN UNCHANGED <<input_mode, input_url, address_bar, content_area, last_navigation, app_status>>
       ELSE IF c = EnterKey
       THEN /\ result \in HandleUrlReturns(input_url)
            /\ StartNavigation(result)
            /\ input_url' = IF result.ok THEN <<>> ELSE input_url
            /\ input_mode' = IF result.ok THEN "Normal" ELSE input_mode
            /\ UNCHANGED address_bar
       ELSE /\ input_url' = IF c = DeleteKey
                             THEN SubSeq(input_url, 1, Len(input_url) - 1)
                             ELSE Append(input_url, c)
            /\ address_bar' = input_url'
            /\ UNCHANGED <<input_mode, content_area, last_navigation, app_status>>
    /\ UNCHANGED nonAppVars

\* WasabiUI::handle_mouse_input (app.rs:151-209) as run_app calls it
\* (app.rs:144): event is "none" (no event, or no button pressed),
\* "outside", "toolbar" or "content"; next_destination is what
\* page.clicked returned, <<>> for None
HandleMouseInput(event, next_destination, result) ==
    /\ app_status = "running"
    /\ app_turn = "mouse"
    /\ app_turn' = "key"
    /\ CASE event = "toolbar" ->
              /\ address_bar' = <<>>
              /\ input_url' = <<>>
              /\ input_mode' = "Editing"
              /\ UNCHANGED <<content_area, last_navigation, app_status>>
         [] event = "content" /\ next_destination = <<>> ->
              /\ input_mode' = "Normal"
              /\ UNCHANGED <<input_url, address_bar, content_area, last_navigation, app_status>>
         [] event = "content" /\ next_destination # <<>> ->
              /\ input_mode' = "Normal"
              /\ input_url' = next_destination
              /\ address_bar' = next_destination
              /\ result \in HandleUrlReturns(next_destination)
              /\ StartNavigation(result)
         [] OTHER ->
              UNCHANGED <<input_mode, input_url, address_bar, content_area, last_navigation, app_status>>
    /\ UNCHANGED nonAppVars

Init == HtmlInit /\ TokNew(<<>>) /\ CssNew(<<>>, NoSheet) /\ LayoutNew(<<>>, <<>>) /\ JsRuntimeNew(<<>>, <<>>) /\ NetNew(<<>>) /\ PageNew /\ SplitNew(<<>>, 1) /\ JsLexerNew(<<>>) /\ JsParserNew(<<>>) /\ WasabiUINew

Next == HtmlNext

Spec == Init /\ [][Next]_vars

(***************************************************************************)
(* The tokenizer on its own: SpecTok draws the input string and calls      *)
(* next() until it returns None or aborts.                                 *)
(***************************************************************************)
\* the longest input string of arbitrary characters
MaxInput == 4
\* the longest script text between <script> and what follows it
MaxScriptText == 3

TokAlphabet == {"<", "/", ">", "p", "B", " ", "=", "\""}
ScriptTextAlphabet == {"<", "/", "a", ">"}

RECURSIVE SeqsUpTo(_, _)
SeqsUpTo(S, n) ==
    IF n = 0 THEN {<<>>}
    ELSE LET shorter == SeqsUpTo(S, n - 1)
         IN  shorter \cup {Append(q, x) : q \in {r \in shorter : Len(r) = n - 1}, x \in S}

ScriptOpen  == <<"<", "s", "c", "r", "i", "p", "t", ">">>
ScriptClose == <<"<", "/", "s", "c", "r", "i", "p", "t", ">">>

\* arbitrary short strings, and pages with a script element: <script>,
\* a script text and then </script> or the end of the input
TokInputs ==
    SeqsUpTo(TokAlphabet, MaxInput)
        \cup {ScriptOpen \o b \o e : b \in SeqsUpTo(ScriptTextAlphabet, MaxScriptText),
                                      e \in {<<>>, ScriptClose}}

TokInit ==
    /\ HtmlInit
    /\ CssNew(<<>>, NoSheet)
    /\ LayoutNew(<<>>, <<>>) /\ JsRuntimeNew(<<>>, <<>>)
    /\ NetNew(<<>>) /\ PageNew /\ SplitNew(<<>>, 1) /\ JsLexerNew(<<>>) /\ JsParserNew(<<>>) /\ WasabiUINew
    /\ \E html \in TokInputs : TokNew(html)

SpecTok == TokInit /\ [][TokNext]_vars

(***************************************************************************)
(* The CSS parser on its own: SpecCss draws the token stream and calls     *)
(* parse_stylesheet once.                                                  *)
(***************************************************************************)
\* the most rules of a written stylesheet
MaxRules == 2
\* the most declarations of a written rule
MaxDecls == 2
\* the longest stream of arbitrary tokens
MaxCssLen == 3

Str_p     == <<"p">>
Str_x     == <<"x">>
Str_i     == <<"i">>
Str_color == <<"c", "o", "l", "o", "r">>
Str_red   == <<"r", "e", "d">>
Str_size  == <<"f", "o", "n", "t", "-", "s", "i", "z", "e">>
Str_media == <<"m", "e", "d", "i", "a">>

\* selectors and declarations written into stylesheets
SelectorForms == {TypeSelector(Str_p), ClassSelector(Str_x), IdSelector(Str_i)}
DeclarationForms ==
    {[property |-> Str_color, value |-> CssTok("Ident", Str_red)],
     [property |-> Str_size,  value |-> CssTok("Number", 40)]}
RuleForms ==
    {[selector |-> sel, declarations |-> ds] :
        sel \in SelectorForms, ds \in SeqsUpTo(DeclarationForms, MaxDecls)}

\* the tokens of a selector, a declaration list, a rule and a stylesheet;
\* with semicolons every declaration ends in ';', without it ';' only
\* separates declarations
WriteSelector(sel) ==
    CASE sel.kind = "TypeSelector"  -> <<CssTok("Ident", sel.name)>>
      [] sel.kind = "ClassSelector" -> <<CssTok("Delim", "."), CssTok("Ident", sel.name)>>
      [] sel.kind = "IdSelector"    -> <<CssTok("HashToken", <<"#">> \o sel.name)>>

RECURSIVE WriteDeclarations(_, _)
WriteDeclarations(ds, semicolons) ==
    IF ds = <<>> THEN <<>>
    ELSE <<CssTok("Ident", Head(ds).property), CssTok("Colon", <<>>), Head(ds).value>>
            \o (IF semicolons \/ Len(ds) > 1 THEN <<CssTok("SemiColon", <<>>)>> ELSE <<>>)
            \o WriteDeclarations(Tail(ds), semicolons)

WriteRule(r, semicolons) ==
    WriteSelector(r.selector) \o <<CssTok("OpenCurly", <<>>)>>
        \o WriteDeclarations(r.declarations, semicolons) \o <<CssTok("CloseCurly", <<>>)>>

RECURSIVE WriteSheet(_, _)
WriteSheet(rules, semicolons) ==
    IF rules = <<>> THEN <<>>
    ELSE WriteRule(Head(rules), semicolons) \o WriteSheet(Tail(rules), semicolons)

CssAlphabet ==
    {CssTok("Ident", Str_p), CssTok("HashToken", <<"#">> \o Str_i), CssTok("Delim", "."),
     CssTok("Delim", "*"), CssTok("Colon", <<>>), CssTok("SemiColon", <<>>),
     CssTok("OpenCurly", <<>>), CssTok("CloseCurly", <<>>),
     CssTok("AtKeyword", Str_media), CssTok("Number", 40)}

\* the stream ts without its i-th token
DropToken(ts, i) == SubSeq(ts, 1, i - 1) \o SubSeq(ts, i + 1, Len(ts))

\* the streams of two written rules with one token left out (a missing
\* value, brace, colon or selector)
DamagedSheets ==
    UNION {LET ts == WriteRule(r1, s) \o WriteRule(r2, s)
           IN  {DropToken(ts, i) : i \in 1..Len(ts)} :
              r1 \in RuleForms, r2 \in RuleForms, s \in BOOLEAN}

\* a stream written from a stylesheet, a stream of two rules with a token
\* missing, or a short stream of arbitrary tokens
CssInit ==
    /\ HtmlInit
    /\ TokNew(<<>>)
    /\ LayoutNew(<<>>, <<>>) /\ JsRuntimeNew(<<>>, <<>>)
    /\ NetNew(<<>>) /\ PageNew /\ SplitNew(<<>>, 1) /\ JsLexerNew(<<>>) /\ JsParserNew(<<>>) /\ WasabiUINew
    /\ \/ \E rules \in SeqsUpTo(RuleForms, MaxRules), semicolons \in BOOLEAN :
            CssNew(WriteSheet(rules, semicolons),
                   [rules |-> rules, written |-> TRUE, semicolons |-> semicolons])
       \/ \E ts \in DamagedSheets : CssNew(ts, NoSheet)
       \/ \E ts \in SeqsUpTo(CssAlphabet, MaxCssLen) : CssNew(ts, NoSheet)

SpecCss == CssInit /\ [][ParseStylesheet]_vars

(***************************************************************************)
(* The layout on its own: SpecLayout draws a DOM and a style sheet, calls  *)
(* LayoutView::new and then LayoutView::paint.                             *)
(***************************************************************************)
\* the most nodes below body
MaxBodyNodes == 3
\* the most rules of a style sheet
MaxSheetRules == 2
\* the longest text of the page of one text
MaxTextLen == 6

Attribute(name, value) == [name |-> name, value |-> value]

\* the DOM d with node as the new last child of parent
AppendChild(d, parent, node) ==
    LET id == Len(d) + 1
        last == d[parent].last_child
        linked == Append(d, [node EXCEPT !.parent = parent, !.previous_sibling = last])
    IN  IF last = Nil
        THEN [linked EXCEPT ![parent].first_child = id, ![parent].last_child = id]
        ELSE [linked EXCEPT ![last].next_sibling = id, ![parent].last_child = id]

\* Document > html > (head, body), the body start tag with the given attributes
BodyId == 4
BaseDocument(body_attributes) ==
    LET d1 == <<NewNode("Document", "", <<>>, <<>>)>>
        d2 == AppendChild(d1, 1, NewNode("Element", "html", <<>>, <<>>))
        d3 == AppendChild(d2, 2, NewNode("Element", "head", <<>>, <<>>))
    IN  AppendChild(d3, 2, NewNode("Element", "body", body_attributes, <<>>))

BodyAttributeForms == {<<>>, <<Attribute("id", "x")>>}

\* the nodes put below body
NodeForms ==
    {NewNode("Element", "p", <<>>, <<>>),
     NewNode("Element", "p", <<Attribute("class", "hidden")>>, <<>>),
     NewNode("Element", "h1", <<>>, <<>>),
     NewNode("Text", "", <<>>, <<"a">>)}

\* the DOMs with up to n nodes below body
RECURSIVE Documents(_)
Documents(n) ==
    IF n = 0 THEN {BaseDocument(a) : a \in BodyAttributeForms}
    ELSE LET smaller == Documents(n - 1)
             full == {d \in smaller : Len(d) = BodyId + n - 1}
         IN  smaller \cup
             UNION {{AppendChild(d, parent, node) :
                        parent \in {q \in BodyId..Len(d) : d[q].kind = "Element"},
                        node \in NodeForms} : d \in full}

\* the rules style sheets are made of
Declaration(property, value) == [property |-> property, value |-> value]
RuleSet ==
    {[selector |-> ClassSelector("hidden"),
      declarations |-> <<Declaration("display", CssTok("Ident", "none"))>>],
     [selector |-> TypeSelector("p"),
      declarations |-> <<Declaration("display", CssTok("Ident", "inline")),
                         Declaration("color", CssTok("Ident", "red"))>>],
     [selector |-> TypeSelector("p"),
      declarations |-> <<Declaration("color", CssTok("HashToken", "#0000ff")),
                         Declaration("font-size", CssTok("Number", 40)),
                         Declaration("display", CssTok("Ident", "block"))>>],
     [selector |-> TypeSelector("h1"),
      declarations |-> <<Declaration("background-color", CssTok("Ident", "green")),
                         Declaration("display", CssTok("Ident", "flex"))>>],
     [selector |-> TypeSelector("body"),
      declarations |-> <<Declaration("display", CssTok("Ident", "none"))>>]}

\* the page of one text: body > element > Text
TextAlphabet == {"a", " ", "\n"}
TextPage(tag, text) ==
    LET d == AppendChild(BaseDocument(<<>>), BodyId, NewNode("Element", tag, <<>>, <<>>))
    IN  AppendChild(d, BodyId + 1, NewNode("Text", "", <<>>, text))

\* a DOM and a style sheet, or the page of one text without a style sheet
LayoutInit ==
    /\ HtmlInit
    /\ TokNew(<<>>)
    /\ CssNew(<<>>, NoSheet)
    /\ JsRuntimeNew(<<>>, <<>>)
    /\ NetNew(<<>>) /\ PageNew /\ SplitNew(<<>>, 1) /\ JsLexerNew(<<>>) /\ JsParserNew(<<>>) /\ WasabiUINew
    /\ \/ \E d \in Documents(MaxBodyNodes), rules \in SeqsUpTo(RuleSet, MaxSheetRules) :
             LayoutNew(d, rules)
       \/ \E tag \in {"p", "h1", "h2"}, text \in SeqsUpTo(TextAlphabet, MaxTextLen) :
             LayoutNew(TextPage(tag, text), <<>>)

LayoutNext == LayoutViewNew \/ LayoutViewPaint

SpecLayout == LayoutInit /\ [][LayoutNext]_vars

(***************************************************************************)
(* SpecJs: JsRuntime::execute on a program, as JsParser builds it: a       *)
(* sequence of declarations and assignments in the global scope, a         *)
(* function that is declared and called, or a call of                      *)
(* document.getElementById.                                                *)
(***************************************************************************)
\* the most declarations and assignments before the identifier is read
MaxStatements == 3

\* var name = init;   name = value;   name;   as the parser builds them
VarStatement(name, init) ==
    VariableDeclaration(<<VariableDeclarator(Identifier(name), init)>>)
AssignStatement(name, value) ==
    ExpressionStatement(AssignmentExpression("=", Identifier(name), value))
ReadStatement(name) == ExpressionStatement(Identifier(name))
CallStatement(callee, arguments) == ExpressionStatement(CallExpression(callee, arguments))

VariableNames == {"a", "x"}

\* the declarations and assignments of the global scope
ScopeStatements ==
    {VarStatement(n, NumericLiteral(v)) : n \in VariableNames, v \in {1, 2}}
        \cup {AssignStatement(n, NumericLiteral(v)) : n \in VariableNames, v \in {3, 4}}

\* the parameter lists, the bodies and the argument lists of the function f
ParameterLists == {<<>>, <<Identifier("x")>>, <<Identifier("x"), Identifier("a")>>}
FunctionBodies ==
    {BlockStatement(<<ReturnStatement(Identifier("x"))>>),
     BlockStatement(<<ReturnStatement(Identifier("a"))>>),
     BlockStatement(<<AssignStatement("a", NumericLiteral(7)),
                      ReturnStatement(Identifier("a"))>>),
     BlockStatement(<<VarStatement("a", NumericLiteral(3)),
                      ReturnStatement(Identifier("a"))>>),
     BlockStatement(<<ReturnStatement(AdditiveExpression("+", Identifier("x"), Identifier("a")))>>),
     BlockStatement(<<ReturnStatement(AdditiveExpression("-", Identifier("x"), Identifier("a")))>>)}
ArgumentLists ==
    {<<>>, <<NumericLiteral(5)>>, <<Identifier("a")>>,
     <<NumericLiteral(5), Identifier("x")>>, <<NumericLiteral(1), NumericLiteral(5)>>}

\* [global declaration;] function f(params) body  f(arguments); name;
FunctionPrograms ==
    {prefix \o <<FunctionDeclaration(Identifier("f"), params, body),
                 CallStatement(Identifier("f"), arguments),
                 ReadStatement(name)>> :
        prefix \in {<<>>} \cup {<<VarStatement(n, NumericLiteral(1))>> : n \in VariableNames},
        params \in ParameterLists, body \in FunctionBodies,
        arguments \in ArgumentLists, name \in VariableNames}

\* document.getElementById("id");
GetElementByIdStatement(id) ==
    CallStatement(MemberExpression(Identifier("document"), Identifier("getElementById")),
                  <<StringLiteral(id)>>)

\* function f() { s1 s2 } f();  with a return among s1, s2
ReturnValues == {1, 2}
BodyStatements ==
    {ReturnStatement(NumericLiteral(v)) : v \in ReturnValues}
        \cup {AssignStatement("a", NumericLiteral(7)), VarStatement("a", NumericLiteral(3)),
              ExpressionStatement(NumericLiteral(9))}
ReturnPrograms ==
    {<<FunctionDeclaration(Identifier("f"), <<>>, BlockStatement(<<s1, s2>>)),
       CallStatement(Identifier("f"), <<>>)>> :
        s1 \in BodyStatements, s2 \in BodyStatements}

\* the largest operand of the subtractions
MaxOperand == 2

\* a - b;
SubtractionPrograms ==
    {<<ExpressionStatement(AdditiveExpression("-", NumericLiteral(a), NumericLiteral(b)))>> :
        a \in 0..MaxOperand, b \in 0..MaxOperand}

JsInit ==
    /\ HtmlInit
    /\ TokNew(<<>>)
    /\ CssNew(<<>>, NoSheet)
    /\ LayoutNew(<<>>, <<>>)
    /\ NetNew(<<>>) /\ PageNew /\ SplitNew(<<>>, 1) /\ JsLexerNew(<<>>) /\ JsParserNew(<<>>) /\ WasabiUINew
    /\ \/ \E statements \in SeqsUpTo(ScopeStatements, MaxStatements), name \in VariableNames :
             JsRuntimeNew(BaseDocument(<<>>), Append(statements, ReadStatement(name)))
       \/ \E program \in FunctionPrograms : JsRuntimeNew(BaseDocument(<<>>), program)
       \/ \E d \in Documents(1), id \in {"x", "missing"} :
             JsRuntimeNew(d, <<GetElementByIdStatement(id)>>)
       \/ \E program \in ReturnPrograms \cup SubtractionPrograms :
             JsRuntimeNew(BaseDocument(<<>>), program)

SpecJs == JsInit /\ [][JsRuntimeExecute]_vars

(***************************************************************************)
(* handle_url on its own: SpecNet draws the URL and, for each call of      *)
(* HttpClient::get, what the network returns.                              *)
(***************************************************************************)
\* the most characters in front of the scheme of a URL
MaxPrefixLen == 1

UrlPrefixAlphabet == {"a", "/"}
Schemes ==
    {<<>>, HttpScheme, <<"f", "t", "p", ":", "/", "/">>,
     <<"h", "t", "t", "p", "s", ":", "/", "/">>}
Hosts == {<<"a">>, <<"b", ".", "c">>}
Ports == {<<>>, <<":", "8">>, <<":", "x">>, <<":", "7", "0", "0", "0", "0">>}
Paths == {<<>>, <<"/">>, <<"/", "p">>, <<"/", "p", "?", "q">>}

Urls ==
    {prefix \o scheme \o host \o port \o path :
        prefix \in SeqsUpTo(UrlPrefixAlphabet, MaxPrefixLen), scheme \in Schemes,
        host \in Hosts, port \in Ports, path \in Paths}

\* the values of the Location header, NoHeader for a response without one
Locations ==
    {NoHeader,
     HttpScheme \o <<"b", ".", "c", ":", "8", "/", "p">>,
     HttpScheme \o <<"a">>,
     <<"b", ".", "c">>}

Responses == [status_code : {200, 302}, location : Locations, body : {"one", "two"}]

\* what a call of HttpClient::get returns (http.rs:20-99)
Replies == {Err("Network", "")} \cup {Ok(res) : res \in Responses}

NetInit ==
    /\ HtmlInit
    /\ TokNew(<<>>)
    /\ CssNew(<<>>, NoSheet)
    /\ LayoutNew(<<>>, <<>>) /\ JsRuntimeNew(<<>>, <<>>)
    /\ PageNew /\ SplitNew(<<>>, 1) /\ JsLexerNew(<<>>) /\ JsParserNew(<<>>) /\ WasabiUINew
    /\ \E u \in Urls : NetNew(u)

NetNext ==
    \/ HandleUrlParse
    \/ \E reply \in Replies : HandleUrlGet(reply)
    \/ \E reply \in Replies : HandleUrlResponse(reply)

SpecNet == NetInit /\ [][NetNext]_vars

(***************************************************************************)
(* The page on its own: SpecPage lets one Page receive response after      *)
(* response, the display items cleared in between or not.                  *)
(***************************************************************************)
PagePrograms ==
    {<<>>,
     <<VarStatement("a", NumericLiteral(1)), ReadStatement("a")>>,
     <<GetElementByIdStatement("x")>>}

PageBodies ==
    {[document |-> d, rules |-> rules, program |-> program] :
        d \in Documents(1), rules \in SeqsUpTo(RuleSet, 1), program \in PagePrograms}

PageInit ==
    /\ HtmlInit
    /\ TokNew(<<>>)
    /\ CssNew(<<>>, NoSheet)
    /\ LayoutNew(<<>>, <<>>) /\ JsRuntimeNew(<<>>, <<>>)
    /\ NetNew(<<>>)
    /\ PageNew /\ SplitNew(<<>>, 1) /\ JsLexerNew(<<>>) /\ JsParserNew(<<>>) /\ WasabiUINew

PageNext ==
    \/ \E body \in PageBodies : PageReceiveResponse(body)
    \/ PageClearDisplayItems

SpecPage == PageInit /\ [][PageNext]_vars

(***************************************************************************)
(* The JavaScript lexer on its own: SpecLexer draws the input and calls    *)
(* next() until it returns None or aborts.                                 *)
(***************************************************************************)
\* the longest input of the lexer
MaxJsInput == 4

JsAlphabet == {"v", "a", "r", "f", "x", "1", " ", "=", "\"", "_"}

LexerInit ==
    /\ HtmlInit
    /\ TokNew(<<>>)
    /\ CssNew(<<>>, NoSheet)
    /\ LayoutNew(<<>>, <<>>) /\ JsRuntimeNew(<<>>, <<>>)
    /\ NetNew(<<>>) /\ PageNew /\ SplitNew(<<>>, 1) /\ JsParserNew(<<>>) /\ WasabiUINew
    /\ \E js \in SeqsUpTo(JsAlphabet, MaxJsInput) : JsLexerNew(js)

SpecLexer == LexerInit /\ [][JsLexerNext]_vars

(***************************************************************************)
(* The JavaScript parser on its own: SpecParser draws the tokens of the    *)
(* lexer and turns the loop of parse_ast until it returns, repeats without *)
(* an end or aborts.                                                       *)
(***************************************************************************)
\* the most tokens of a script, the head of its function left aside
MaxParserTokens == 4

ParserTokens ==
    {KeywordVar, KeywordFunction, KeywordReturn, JsToken("Identifier", <<"x">>),
     JsToken("Number", 1), Punctuator("="), Punctuator(";"), Punctuator("("), Punctuator(")"),
     Punctuator("{"), Punctuator("}")}

\* `function x() {`
FunctionHead ==
    <<KeywordFunction, JsToken("Identifier", <<"x">>), Punctuator("("), Punctuator(")"),
      Punctuator("{")>>

\* the scripts: any tokens, and a function with any tokens after its '{'
ParserScripts ==
    SeqsUpTo(ParserTokens, MaxParserTokens)
        \cup {FunctionHead \o body : body \in SeqsUpTo(ParserTokens, MaxParserTokens - 1)}

ParserInit ==
    /\ HtmlInit
    /\ TokNew(<<>>)
    /\ CssNew(<<>>, NoSheet)
    /\ LayoutNew(<<>>, <<>>) /\ JsRuntimeNew(<<>>, <<>>)
    /\ NetNew(<<>>) /\ PageNew /\ SplitNew(<<>>, 1) /\ JsLexerNew(<<>>) /\ WasabiUINew
    /\ \E t \in ParserScripts : JsParserNew(t)

SpecParser == ParserInit /\ [][ParseAstStep]_vars

(***************************************************************************)
(* The UI on its own: SpecApp draws the keys, the mouse events, the links  *)
(* of the page and what handle_url returns.                                *)
(***************************************************************************)
\* the most characters typed into the address bar
MaxInputUrl == 8

\* the characters typed, the Enter and the delete key aside
AppKeys == {"h", "t", "p", ":", "/", "a"}

\* what the user is about to type
TypedUrls == {HttpScheme \o <<"a">>, HttpScheme \o <<"t">>, <<"a", "/", "p">>, <<"h", "/", "/">>}

\* text is the beginning of one of them
IsTyped(text) == \E u \in TypedUrls : Len(text) <= Len(u) /\ SubSeq(u, 1, Len(text)) = text

\* the href of the links of a page
AppLinks == {HttpScheme \o <<"a">>, <<"a">>}

\* every result handle_url has
AppResults == AppReplies \cup {Err("UnexpectedInput", "input html is not supported")}

AppInit ==
    /\ HtmlInit
    /\ TokNew(<<>>)
    /\ CssNew(<<>>, NoSheet)
    /\ LayoutNew(<<>>, <<>>) /\ JsRuntimeNew(<<>>, <<>>)
    /\ NetNew(<<>>) /\ PageNew /\ SplitNew(<<>>, 1) /\ JsLexerNew(<<>>) /\ JsParserNew(<<>>)
    /\ WasabiUINew

AppNext ==
    \/ \E c \in AppKeys \cup {EnterKey, DeleteKey, NoKey}, result \in AppResults :
           /\ c \in AppKeys => Len(input_url) < MaxInputUrl /\ IsTyped(Append(input_url, c))
           /\ HandleKeyInput(c, result)
    \/ \E event \in {"none", "outside", "toolbar", "content"},
          next_destination \in {<<>>} \cup (IF content_area = "page" THEN AppLinks ELSE {}),
          result \in AppResults :
           HandleMouseInput(event, next_destination, result)

SpecApp == AppInit /\ [][AppNext]_vars

(***************************************************************************)
(* split_text on its own: SpecSplit draws a whitespace-normalized line     *)
(* and a positive character width and calls split_text once.               *)
(***************************************************************************)
\* the longest line
MaxLineLen == 6
\* the largest character width
MaxCharWidth == 12

LineAlphabet == {"a", "b", " "}

\* the lines the normalization of paint (layout_object.rs:480-485) leaves as they are
NormalizedLines == {l \in SeqsUpTo(LineAlphabet, MaxLineLen) : PlainText(l) = l}

SplitInit ==
    /\ HtmlInit
    /\ TokNew(<<>>)
    /\ CssNew(<<>>, NoSheet)
    /\ LayoutNew(<<>>, <<>>) /\ JsRuntimeNew(<<>>, <<>>)
    /\ NetNew(<<>>) /\ PageNew /\ JsLexerNew(<<>>) /\ JsParserNew(<<>>) /\ WasabiUINew
    /\ \E line \in NormalizedLines, char_width \in 1..MaxCharWidth : SplitNew(line, char_width)

SpecSplit == SplitInit /\ [][SplitTextCall]_vars

(***************************************************************************)
(* Properties of the tree builder                                          *)
(***************************************************************************)
Nodes == 1..Len(dom)

\* the children of n: first_child, then the next_sibling links
RECURSIVE SiblingsFrom(_, _, _)
SiblingsFrom(d, c, fuel) ==
    IF c = Nil \/ fuel = 0 THEN <<>>
    ELSE <<c>> \o SiblingsFrom(d, d[c].next_sibling, fuel - 1)

Children(d, n) == SiblingsFrom(d, d[n].first_child, Len(d))

KindsOf(d, ids) == [i \in 1..Len(ids) |-> GetElementKind(d, ids[i])]

\* an iteration of the while loop that neither returned nor fetched a token
KeptToken == pc = "loop" /\ pc' = "loop" /\ examined' = examined + 1

\* C1: construct_tree terminates: every iteration of its loop consumes the
\* current token, changes the insertion mode, or returns.
C1_EveryIterationProgresses == [][KeptToken => mode' /= mode]_vars

\* C2: in InBody a StartTag of a recognized element is inserted as the last
\* child of the current node and pushed on the stack of open elements, a
\* Char is appended by insert_char, and the next token is fetched.
C2_InBodyInserts ==
    [][(pc = "loop" /\ mode = "InBody" /\ examined' /= examined)
         => /\ (token.type = "StartTag" /\ ElementKindFromStr(token.tag) /= "Err")
                 => /\ examined' = 0
                    /\ Len(dom') = Len(dom) + 1
                    /\ stack_of_open_elements' = Append(stack_of_open_elements, Len(dom'))
                    /\ dom'[Len(dom')].parent = Current(stack_of_open_elements)
                    /\ dom'[Current(stack_of_open_elements)].last_child = Len(dom')
            /\ token.type = "Char"
                 => /\ examined' = 0
                    /\ dom' = InsertChar(dom, stack_of_open_elements, token.c).dom]_vars

\* C3: in InBody the DOM is Document with the single child html, whose
\* children are head followed by body.
C3_InBodyShape ==
    (pc = "loop" /\ mode = "InBody")
        => /\ Len(Children(dom, DocumentId)) = 1
           /\ LET html == dom[DocumentId].first_child
              IN  /\ GetElementKind(dom, html) = "html"
                  /\ dom[DocumentId].last_child = html
                  /\ KindsOf(dom, Children(dom, html)) = <<"head", "body">>

\* InBody is reached on <p> as the very first token: html, head and body
\* were all synthesized
C3_Witness ==
    /\ pc = "loop" /\ mode = "InBody"
    /\ fetched = 1 /\ token = StartTag("p")
    /\ Len(dom) = 4

\* C4: for every node n with child c: c.parent = n; the first child has no
\* previous sibling; the last child has no next sibling; and n.last_child is
\* the last node of the chain that starts at n.first_child.
C4_ParentAndEnds ==
    \A n \in Nodes :
        LET cs == Children(dom, n)
        IN  /\ \A i \in 1..Len(cs) : dom[cs[i]].parent = n
            /\ (cs = <<>>) <=> (dom[n].last_child = Nil)
            /\ cs /= <<>> =>
                 /\ dom[cs[1]].previous_sibling = Nil
                 /\ dom[n].last_child = cs[Len(cs)]
                 /\ dom[dom[n].last_child].next_sibling = Nil

\* a node has three children, and a Text node was inserted by insert_char
C4_Witness ==
    /\ \E n \in Nodes : Len(Children(dom, n)) >= 3
    /\ \E n \in Nodes : dom[n].kind = "Text" /\ dom[n].parent /= Nil

\* C5: the children of a node form a doubly-linked list: when a.next_sibling
\* is b, b.previous_sibling is a.
C5_DoublyLinked ==
    \A a \in Nodes :
        dom[a].next_sibling /= Nil => dom[dom[a].next_sibling].previous_sibling = a

\* C6: Text nodes are leaves.
C6_TextNodesAreLeaves ==
    \A n \in Nodes : dom[n].kind = "Text" => dom[n].first_child = Nil

\* the element whose start tag switched the builder to Text: the current
\* node, or its parent once insert_char pushed a Text node
TextOpener ==
    LET current == Current(stack_of_open_elements)
    IN  IF dom[current].kind = "Text" THEN dom[current].parent ELSE current

\* C9: in Text an EndTag pops the stack and restores the original mode only
\* when its name is the tag of the element that opened Text; then the
\* current node is that element's parent and the mode is the saved one.
C9_TextEndTag ==
    [][(pc = "loop" /\ mode = "Text" /\ token.type = "EndTag")
         => IF token.tag = dom[TextOpener].tag
            THEN /\ pc' = "loop"
                 /\ Current(stack_of_open_elements') = dom[TextOpener].parent
                 /\ mode' = original_insertion_mode
            ELSE /\ pc' = "loop"
                 /\ stack_of_open_elements' = stack_of_open_elements
                 /\ mode' = "Text"]_vars

(***************************************************************************)
(* Properties of the tokenizer (under SpecTok)                             *)
(***************************************************************************)
\* C7: at the end of a (non-empty) input read in Data the tokenizer emits
\* Eof, and only after that does next() return None.
C7_EofThenNone ==
    (tpc = "done" /\ state = "Data" /\ input /= <<>>)
        => /\ Len(emitted) >= 2
           /\ emitted[Len(emitted) - 1] = Eof
           /\ \A i \in 1..(Len(emitted) - 2) : emitted[i] /= Eof

ScriptDataStates ==
    {"ScriptData", "ScriptDataLessThanSign", "ScriptDataEndTagOpen",
     "ScriptDataEndTagName", "TemporaryBuffer"}

\* the last tag emitted so far is StartTag script with no EndTag script after it
InScriptElement(em) ==
    \E i \in 1..Len(em) :
        /\ em[i].type = "StartTag" /\ em[i].tag = "script"
        /\ \A j \in (i + 1)..Len(em) : ~(em[j].type = "EndTag" /\ em[j].tag = "script")

IsPrefix(p, q) == Len(p) <= Len(q) /\ SubSeq(q, 1, Len(p)) = p
IsSuffix(p, q) == Len(p) <= Len(q) /\ SubSeq(q, Len(q) - Len(p) + 1, Len(q)) = p

\* the text between <script> and the closing </script> of the input
ScriptText == SubSeq(input, Len(ScriptOpen) + 1, Len(input) - Len(ScriptClose))

\* C8: between StartTag script and EndTag script the tokenizer is in the
\* ScriptData states and every character of the script text is emitted as
\* a Char token, in order; a '<' that starts no end tag is Char('<').
C8_ScriptTextIsChars ==
    /\ (tpc = "ready" /\ InScriptElement(emitted) /\ pos < Len(input))
          => state \in ScriptDataStates
    /\ ( /\ tpc = "done"
         /\ Len(input) >= Len(ScriptOpen) + Len(ScriptClose)
         /\ IsPrefix(ScriptOpen, input) /\ IsSuffix(ScriptClose, input)
         /\ \A i \in 1..(Len(ScriptText) - 1) :
                ~(ScriptText[i] = "<" /\ ScriptText[i + 1] = "/") )
        => emitted = <<StartTag("script")>>
                       \o [i \in 1..Len(ScriptText) |-> Char(ScriptText[i])]
                       \o <<EndTag("script"), None>>

(***************************************************************************)
(* Properties of the CSS parser (under SpecCss)                            *)
(***************************************************************************)
\* C10: for a token stream made of n qualified rules (selector, '{',
\* declarations Ident ':' value separated by ';', '}') parse_stylesheet
\* returns exactly those n rules in source order, each with its own selector
\* and its declarations in source order; the empty stream gives no rule.
C10_RulesInSourceOrder ==
    (cpc = "done" /\ css_sheet.written)
        => css_result = [k |-> "ok", rules |-> css_sheet.rules]

\* two rules were parsed, one of them with two declarations
C10_Witness ==
    /\ cpc = "done" /\ css_sheet.written
    /\ Len(css_result.rules) = 2
    /\ css_result.rules[1].selector /= css_result.rules[2].selector
    /\ Len(css_result.rules[2].declarations) = 2
    /\ css_result.rules[2].declarations[1] /= css_result.rules[2].declarations[2]

\* the first index from `from` on of a token of the given type, 0 if none
RECURSIVE FirstIndexOf(_, _, _)
FirstIndexOf(ts, type, from) ==
    IF from > Len(ts) THEN 0
    ELSE IF ts[from].type = type THEN from
    ELSE FirstIndexOf(ts, type, from + 1)

\* C11: the selector of a parsed rule is decided by the first token of its
\* prelude (HashToken: IdSelector without '#'; '.' then Ident:
\* ClassSelector; Ident: TypeSelector); later prelude tokens do not replace it.
C11_FirstTokenDecides ==
    (cpc = "done" /\ css_result.k = "ok" /\ css_result.rules /= <<>> /\ css_tokens /= <<>>)
        => LET first == css_tokens[1]
               selector == css_result.rules[1].selector
           IN  /\ first.type = "HashToken" => selector = IdSelector(Tail(first.v))
               /\ (first = CssTok("Delim", ".") /\ Peek(css_tokens, 2).type = "Ident")
                     => selector = ClassSelector(css_tokens[2].v)
               /\ first.type = "Ident" => selector = TypeSelector(first.v)

\* the stream starts with a one-selector prelude directly followed by '{'
StartsWithRule ==
    LET open == FirstIndexOf(css_tokens, "OpenCurly", 1)
    IN  \/ open = 2 /\ css_tokens[1].type \in {"Ident", "HashToken"}
        \/ open = 3 /\ css_tokens[1] = CssTok("Delim", ".") /\ css_tokens[2].type = "Ident"

\* C12: '}' ends the declaration list of the rule being parsed: the
\* declarations of the first rule are those parsed from the tokens up to
\* the first '}' after its '{'; nothing of a later rule is attributed to it.
C12_CloseCurlyEndsDeclarations ==
    (cpc = "done" /\ css_result.k = "ok" /\ css_result.rules /= <<>> /\ StartsWithRule)
        => LET open == FirstIndexOf(css_tokens, "OpenCurly", 1)
               close == FirstIndexOf(css_tokens, "CloseCurly", open + 1)
               alone == ParseStylesheetOf(SubSeq(css_tokens, 1, close))
           IN  close /= 0
                 => /\ alone.k = "ok" /\ alone.rules /= <<>>
                    /\ css_result.rules[1].declarations = alone.rules[1].declarations

\* C13: parse_stylesheet aborts on no token sequence; an unsupported
\* selector start gives the Unknown selector or drops the rule.
C13_UnknownSelectorNotFatal == cpc = "done" => css_result.k /= "panic"

(***************************************************************************)
(* Properties of style resolution and layout (under SpecLayout)            *)
(***************************************************************************)
\* the children of the LayoutObject n: first_child, then the next_sibling links
RECURSIVE LayoutSiblingsFrom(_, _)
LayoutSiblingsFrom(objs, c) ==
    IF c = Nil THEN <<>> ELSE <<c>> \o LayoutSiblingsFrom(objs, objs[c].next_sibling)
LayoutChildren(objs, n) == LayoutSiblingsFrom(objs, objs[n].first_child)

LayoutTree == Reached(layout_objects, root)

\* the declarations of the rules that select node, in style sheet order
RECURSIVE MatchingDeclarations(_, _)
MatchingDeclarations(node, rules) ==
    IF rules = <<>> THEN <<>>
    ELSE (IF IsNodeSelected(node, Head(rules).selector) THEN Head(rules).declarations ELSE <<>>)
            \o MatchingDeclarations(node, Tail(rules))

\* the value a declaration gives an honored property, "Err" when the value
\* is not accepted
AcceptedValue(declaration) ==
    LET value == declaration.value
    IN  IF declaration.property \in {"background-color", "color"}
        THEN IF value.type = "Ident" THEN ColorFromName(value.v)
             ELSE IF value.type = "HashToken" THEN ColorFromCode(value.v)
             ELSE "Err"
        ELSE IF value.type = "Ident" THEN DisplayTypeFromStr(value.v) ELSE "Err"

\* the value of the last declaration of property with an accepted value
RECURSIVE LastAccepted(_, _)
LastAccepted(declarations, property) ==
    IF declarations = <<>> THEN "unset"
    ELSE LET last == declarations[Len(declarations)]
         IN  IF last.property = property /\ AcceptedValue(last) /= "Err"
             THEN AcceptedValue(last)
             ELSE LastAccepted(SubSeq(declarations, 1, Len(declarations) - 1), property)

\* every declaration of property has an accepted value
AllAccepted(declarations, property) ==
    \A i \in 1..Len(declarations) :
        declarations[i].property = property => AcceptedValue(declarations[i]) /= "Err"

\* C14: when several matching rules declare the same honored property
\* (background-color, color, display) with an accepted value, the element's
\* cascaded value is that of the last one in style sheet order; declarations
\* of other properties leave the computed style unchanged.
C14_LastRuleWins ==
    /\ \A n \in 1..Len(document) :
          document[n].kind = "Element"
            => LET cascaded == CascadeRules(document[n], cssom, NewComputedStyle)
                   declarations == MatchingDeclarations(document[n], cssom)
                   Last(property, value) ==
                       AllAccepted(declarations, property)
                           => value = LastAccepted(declarations, property)
               IN  /\ Last("background-color", cascaded.background_color)
                   /\ Last("color", cascaded.color)
                   /\ Last("display", cascaded.display)
                   /\ cascaded.font_size = "unset"
                   /\ cascaded.text_decoration = "unset"
    /\ lpc /= "start"
         => \A o \in LayoutTree :
               LET node == document[layout_objects[o].node]
                   declarations == MatchingDeclarations(node, cssom)
                   style == layout_objects[o].style
                   Kept(property, value) ==
                       AllAccepted(declarations, property)
                           => LastAccepted(declarations, property) \in {"unset", value}
               IN  node.kind = "Element"
                     => /\ Kept("background-color", style.background_color)
                        /\ Kept("color", style.color)
                        /\ Kept("display", style.display)

\* a p element selected by two rules that give it different colors and
\* displays has the color and the display of the second rule
C14_Witness ==
    /\ lpc = "built" /\ Len(cssom) = 2
    /\ \E o \in LayoutTree :
          LET node == document[layout_objects[o].node]
              first == CascadingStyle(NewComputedStyle, cssom[1].declarations)
              second == CascadingStyle(NewComputedStyle, cssom[2].declarations)
          IN  /\ IsNodeSelected(node, cssom[1].selector)
              /\ IsNodeSelected(node, cssom[2].selector)
              /\ "unset" \notin {first.color, second.color, first.display, second.display}
              /\ first.color /= second.color /\ first.display /= second.display
              /\ layout_objects[o].style.color = second.color
              /\ layout_objects[o].style.display = second.display

\* the display of the last declaration of display with an identifier for
\* value, an identifier that names no display standing for none
RECURSIVE LastDisplay(_)
LastDisplay(declarations) ==
    IF declarations = <<>> THEN "unset"
    ELSE LET last == declarations[Len(declarations)]
         IN  IF last.property = "display" /\ last.value.type = "Ident"
             THEN IF last.value.v \in {"block", "inline"}
                  THEN DisplayTypeFromStr(last.value.v) ELSE "DisplayNone"
             ELSE LastDisplay(SubSeq(declarations, 1, Len(declarations) - 1))

\* the display the style sheet gives the element n is none
Hidden(n) == LastDisplay(MatchingDeclarations(document[n], cssom)) = "DisplayNone"

\* the DOM nodes from n up to the Document, n included
RECURSIVE DomAncestors(_)
DomAncestors(n) == IF n = Nil THEN {} ELSE {n} \cup DomAncestors(document[n].parent)

\* the nodes for which LayoutView::new resolves a style: body and below
InBody(n) == \E b \in DomAncestors(n) : NodeKindEqElement(document[b], "body", <<>>)

\* C15: the layout tree holds no LayoutObject whose display is DisplayNone,
\* and none for a node below an element whose display is none (the display
\* is resolved for the nodes from body down).
C15_NoDisplayNone ==
    lpc /= "start"
      => \A o \in LayoutTree :
            /\ layout_objects[o].style.display /= "DisplayNone"
            /\ \A a \in DomAncestors(layout_objects[o].node) : InBody(a) => ~Hidden(a)

\* a built tree that is not empty, of a DOM in which a hidden element has a
\* child and a following sibling
C15_Witness ==
    /\ lpc = "built" /\ root /= Nil
    /\ \E n \in 1..Len(document) :
          /\ InBody(n) /\ Hidden(n)
          /\ document[n].first_child /= Nil
          /\ document[n].next_sibling /= Nil
          /\ \E o \in LayoutTree : layout_objects[o].node = document[n].next_sibling

\* C16: the children of a LayoutObject are the objects of the DOM children
\* of its node whose display is not none, each once and in DOM order.
C16_ChildrenAreVisibleChildren ==
    lpc /= "start"
      => \A o \in LayoutTree :
            LET children == LayoutChildren(layout_objects, o)
                Visible(n) == ~Hidden(n)
            IN  [i \in 1..Len(children) |-> layout_objects[children[i]].node]
                  = SelectSeq(Children(document, layout_objects[o].node), Visible)

\* a LayoutObject with two children whose node has three, the one between
\* the two visible ones hidden
C16_Witness ==
    /\ lpc = "built"
    /\ \E o \in LayoutTree :
          LET dom_children == Children(document, layout_objects[o].node)
              children == LayoutChildren(layout_objects, o)
          IN  /\ Len(dom_children) = 3
              /\ ~Hidden(dom_children[1]) /\ Hidden(dom_children[2]) /\ ~Hidden(dom_children[3])
              /\ Len(children) = 2
              /\ layout_objects[children[1]].node = dom_children[1]
              /\ layout_objects[children[2]].node = dom_children[3]

C18_ChildParentLink ==
    lpc /= "start"
      => \A n \in LayoutTree :
            \A i \in 1..Len(LayoutChildren(layout_objects, n)) :
               layout_objects[LayoutChildren(layout_objects, n)[i]].parent = n

\* C19: every Text item of the display list is at most CONTENT_AREA_WIDTH
\* wide, its width being characters * CHAR_WIDTH * font ratio.
C19_TextLineFits ==
    lpc = "painted"
      => \A i \in 1..Len(display_items) :
            display_items[i].type = "Text"
              => Len(display_items[i].text) * CHAR_WIDTH
                    * FontRatio(display_items[i].style.font_size) <= CONTENT_AREA_WIDTH

\* the objects below o, and o with them
LayoutDescendants(o) == Reached(layout_objects, layout_objects[o].first_child)
LayoutSubtree(o) == {o} \cup LayoutDescendants(o)
LaterSiblings(o) ==
    LET later == LayoutSiblingsFrom(layout_objects, layout_objects[o].next_sibling)
    IN  {later[i] : i \in 1..Len(later)}
ItemsOf(o) == {i \in 1..Len(display_items) : display_items[i].object = o}

\* C20: in the display list the items of a LayoutObject come before those
\* of its descendants, and the items of the subtree of a sibling before
\* those of the subtree of a later sibling; a Block gives one Rect, an
\* Inline no item.
C20_DisplayListInDocumentOrder ==
    lpc = "painted"
      => /\ \A i, j \in 1..Len(display_items) :
               LET a == display_items[i].object
                   b == display_items[j].object
               IN  /\ b \in LayoutDescendants(a) => i < j
                   /\ (\E s \in LayoutTree : \E t \in LaterSiblings(s) :
                          a \in LayoutSubtree(s) /\ b \in LayoutSubtree(t)) => i < j
         /\ \A o \in LayoutTree :
               /\ layout_objects[o].kind = "Block"
                    => /\ Cardinality(ItemsOf(o)) = 1
                       /\ \A i \in ItemsOf(o) : display_items[i].type = "Rect"
               /\ layout_objects[o].kind = "Inline" => ItemsOf(o) = {}
         /\ \A i \in 1..Len(display_items) : display_items[i].object \in LayoutTree

\* a painted tree whose root is a Block and in which an Inline object has
\* an item below it and an item in the subtree of a later sibling
C20_Witness ==
    /\ lpc = "painted" /\ root /= Nil
    /\ layout_objects[root].kind = "Block"
    /\ \E o \in LayoutTree :
          /\ layout_objects[o].kind = "Inline"
          /\ \E c \in LayoutDescendants(o) : ItemsOf(c) /= {}
          /\ \E t \in LaterSiblings(o) : \E c \in LayoutSubtree(t) : ItemsOf(c) /= {}

\* C28: after update_layout every Block is as wide as the object it is a
\* child of, the root as wide as CONTENT_AREA_WIDTH.
C28_BlockWidthIsParentWidth ==
    lpc /= "start"
      => \A o \in LayoutTree :
            layout_objects[o].kind = "Block"
              => /\ o = root => layout_objects[o].size.width = CONTENT_AREA_WIDTH
                 /\ \A n \in LayoutTree :
                       (\E i \in 1..Len(LayoutChildren(layout_objects, n)) :
                           LayoutChildren(layout_objects, n)[i] = o)
                         => layout_objects[o].size.width = layout_objects[n].size.width

\* C29: for every Text object the Text items paint emits are as many as
\* the lines compute_size counted for its height, one line being
\* CHAR_HEIGHT_WITH_PADDING * font ratio high, and each item is that much
\* below the one before.
C29_PaintedLinesFillHeight ==
    lpc = "painted"
      => \A o \in LayoutTree :
            layout_objects[o].kind = "Text"
              => LET line_height == CHAR_HEIGHT_WITH_PADDING
                                       * FontRatio(layout_objects[o].style.font_size)
                 IN  /\ Cardinality(ItemsOf(o)) * line_height = layout_objects[o].size.height
                     /\ \A i \in ItemsOf(o) :
                           i + 1 \in ItemsOf(o)
                             => display_items[i + 1].layout_point.y
                                   = display_items[i].layout_point.y + line_height

(***************************************************************************)
(* Properties of the JavaScript runtime (under SpecJs)                     *)
(***************************************************************************)
\* the source element k is the statement  f(arguments);  of a user function
IsUserCall(k) ==
    /\ js_program[k].type = "ExpressionStatement"
    /\ js_program[k].expression.type = "CallExpression"
    /\ js_program[k].expression.callee.type = "Identifier"

\* the declarations of the callee of the call k that come before it
DeclarationsOfCallee(k) ==
    {j \in 1..(k - 1) : /\ js_program[j].type = "FunctionDeclaration"
                        /\ js_program[j].id = js_program[k].expression.callee}

\* the call k has a declared callee and as many arguments as it has parameters
WellFormedCall(k) ==
    /\ IsUserCall(k)
    /\ DeclarationsOfCallee(k) /= {}
    /\ LET j == CHOOSE j \in DeclarationsOfCallee(k) : \A i \in DeclarationsOfCallee(k) : i <= j
       IN  Len(js_program[j].params) = Len(js_program[k].expression.arguments)

\* the declaration the call k calls
Callee(k) ==
    js_program[CHOOSE j \in DeclarationsOfCallee(k) : \A i \in DeclarationsOfCallee(k) : i <= j]

\* the body is  { return p; }
ReturnsParameter(body, p) == body = BlockStatement(<<ReturnStatement(p)>>)

\* C21: a function whose body returns its parameter i, called with a
\* number for argument i (and as many arguments as parameters), returns
\* that number, whether or not an enclosing scope binds the parameter's name.
C21_ParameterIsArgument ==
    \A k \in 1..js_index :
        WellFormedCall(k)
          => \A i \in 1..Len(Callee(k).params) :
                (/\ ReturnsParameter(Callee(k).body, Callee(k).params[i])
                 /\ js_program[k].expression.arguments[i].type = "NumericLiteral")
                  => js_values[k] = Number(js_program[k].expression.arguments[i].value)

\* C22: document.getElementById(id) is answered by the browser API: the
\* runtime does not abort, and the value is the HtmlElement of the first
\* element in depth-first order with that id, None when there is none.
C22_GetElementByIdIsBuiltIn ==
    \A k \in 1..js_index :
        (/\ js_program[k].type = "ExpressionStatement"
         /\ js_program[k].expression.type = "CallExpression"
         /\ js_program[k].expression.callee
               = MemberExpression(Identifier("document"), Identifier("getElementById"))
         /\ Len(js_program[k].expression.arguments) = 1
         /\ js_program[k].expression.arguments[1].type = "StringLiteral")
          => LET target == GetElementById(dom_root, DocumentId,
                                          js_program[k].expression.arguments[1].value)
             IN  /\ js_status = "ok"
                 /\ js_values[k] = IF target = Nil THEN NoValue ELSE HtmlElement(target)

\* the global scope declares name before the source element k
DeclaredBefore(name, k) ==
    \E j \in 1..(k - 1) :
        /\ js_program[j].type = "VariableDeclaration"
        /\ js_program[j].declarations[1].id = Identifier(name)

\* C23: when a function body starts with  name = v;  for a name that the
\* function neither declares nor has for parameter and that the global
\* scope declares, reading name in the global scope after the call gives v.
C23_AssignmentReachesEnclosingScope ==
    \A k \in 1..js_index :
        (/\ WellFormedCall(k)
         /\ k + 1 <= js_index
         /\ js_program[k + 1].type = "ExpressionStatement"
         /\ js_program[k + 1].expression.type = "Identifier")
          => LET name == js_program[k + 1].expression.name
                 body == Callee(k).body.body
             IN  (/\ DeclaredBefore(name, k)
                  /\ \A i \in 1..Len(Callee(k).params) : Callee(k).params[i] /= Identifier(name)
                  /\ \A i \in 1..Len(body) : body[i].type /= "VariableDeclaration"
                  /\ body /= <<>>
                  /\ body[1].type = "ExpressionStatement"
                  /\ body[1].expression.type = "AssignmentExpression"
                  /\ body[1].expression.left = Identifier(name)
                  /\ body[1].expression.right.type = "NumericLiteral")
                   => js_values[k + 1] = Number(body[1].expression.right.value)

\* statement declares name, or assigns to it
Declares(statement, name) ==
    /\ statement.type = "VariableDeclaration"
    /\ statement.declarations[1].id = Identifier(name)
Assigns(statement, name) ==
    /\ statement.type = "ExpressionStatement"
    /\ statement.expression.type = "AssignmentExpression"
    /\ statement.expression.left = Identifier(name)

\* the number the last declaration of or assignment to name gives it
RECURSIVE MostRecentValue(_, _)
MostRecentValue(statements, name) ==
    LET last == statements[Len(statements)]
    IN  IF Declares(last, name) THEN Number(last.declarations[1].init.value)
        ELSE IF Assigns(last, name) THEN Number(last.expression.right.value)
        ELSE MostRecentValue(SubSeq(statements, 1, Len(statements) - 1), name)

\* C24: after declarations and assignments of the global scope, a declared
\* name evaluates to the value of the last declaration of or assignment to it.
C24_MostRecentValue ==
    (/\ js_index = Len(js_program) /\ js_index > 0
     /\ js_program[js_index].type = "ExpressionStatement"
     /\ js_program[js_index].expression.type = "Identifier"
     /\ \A k \in 1..(js_index - 1) :
           \E n \in VariableNames : Declares(js_program[k], n) \/ Assigns(js_program[k], n))
      => LET name == js_program[js_index].expression.name
         IN  DeclaredBefore(name, js_index)
               => js_values[js_index]
                     = MostRecentValue(SubSeq(js_program, 1, js_index - 1), name)

\* C30: an argument is evaluated in the scope of the caller: when no
\* enclosing scope binds a parameter name and the body returns parameter i,
\* the call gives what argument i is in the global scope before the call.
C30_ArgumentsInCallerScope ==
    [][\A k \in {js_index + 1} :
          (/\ js_index' = k
           /\ WellFormedCall(k)
           /\ \A i \in 1..Len(Callee(k).params) :
                 GetVariable(environments, 1, Callee(k).params[i].name) = NoValue)
            => \A i \in 1..Len(Callee(k).params) :
                  ReturnsParameter(Callee(k).body, Callee(k).params[i])
                    => js_values'[k] = Eval(dom_root, js_program[k].expression.arguments[i],
                                            1, environments, functions).value]_vars

(***************************************************************************)
(* Properties of the page and of handle_url                                *)
(***************************************************************************)
\* C25: Page::receive_response is deterministic and keeps no state across
\* navigations: whenever a call of it has returned, whatever the page had
\* received or had cleared before, the page (its display_items with it) is
\* the one a fresh Page is left with by receiving the same body.
C25_DisplayItemsAsOnFreshPage ==
    page_status = "received" =>
        \E fresh \in {ReceiveResponse(NewPage, received).page} :
            /\ page_display_items = fresh.display_items
            /\ ThePage = fresh

\* a page that has painted something receives a further response
C25_Witness ==
    /\ page_status = "received"
    /\ navigations >= 2
    /\ page_display_items # <<>>
    /\ Len(received.document) > BodyId
    /\ received.rules # <<>>

\* the first response is a redirect and handle_url is over
Redirected ==
    /\ npc \in {"returned", "panicked"}
    /\ Len(response) >= 1
    /\ response[1].ok
    /\ StatusCode(response[1].value) = 302

\* C26: when the first response has status 302 and a Location header,
\* handle_url issues exactly one further request, addressed to the host,
\* port and path of the Location URL, and returns that second response
\* (or the error of the second request); a 302 without Location is
\* returned as is, without a further request.
C26_SingleRedirectHop ==
    Redirected =>
        LET res == response[1].value
            location == HeaderValueLocation(res)
        IN  IF ~location.ok
            THEN npc = "returned" /\ Len(requests) = 1 /\ handle_result = Ok(res)
            ELSE LET target == UrlParse(UrlNew(location.value))
                 IN  (target.ok /\ ParseU16(target.value.port) >= 0) =>
                         /\ npc = "returned"
                         /\ Len(requests) = 2
                         /\ requests[2] = Request(target.value.host,
                                                  ParseU16(target.value.port),
                                                  target.value.path)
                         /\ Len(response) = 2
                         /\ handle_result = IF response[2].ok THEN Ok(response[2].value)
                                                              ELSE Err("Network", "")

\* the String starts with http://
StartsWithHttp(u) ==
    Len(u) >= Len(HttpScheme) /\ SubSeq(u, 1, Len(HttpScheme)) = HttpScheme

\* C27: Url::parse returns Err("Only HTTP scheme is supported.") for every
\* URL string that does not start with the prefix http://.
C27_RejectsOtherSchemes ==
    (npc # "start" /\ ~StartsWithHttp(url)) =>
        (~parsed_url.ok /\ parsed_url.error = OnlyHttp)

\* the index of the first return statement of a block, 0 when it has none
FirstReturn(body) ==
    IF \E i \in 1..Len(body) : body[i].type = "ReturnStatement"
    THEN CHOOSE i \in 1..Len(body) :
             /\ body[i].type = "ReturnStatement"
             /\ \A j \in 1..(i - 1) : body[j].type # "ReturnStatement"
    ELSE 0

\* source element k is a call f() and it was evaluated without a panic,
\* the function f being declared once, with a return of a number in its body
ReturningCall(k) ==
    /\ IsUserCall(k)
    /\ WellFormedCall(k)
    /\ k <= Len(js_values)
    /\ js_status = "ok"
    /\ Callee(k).body.type = "BlockStatement"
    /\ FirstReturn(Callee(k).body.body) # 0
    /\ Callee(k).body.body[FirstReturn(Callee(k).body.body)].argument.type = "NumericLiteral"

\* C31: the value a caller receives from a user-function call is the value
\* of the first return statement executed in the body; the statements
\* that follow that return in the block do not change it.
C31_FirstReturnIsCallValue ==
    \A k \in 1..Len(js_program) :
        ReturningCall(k) =>
            js_values[k] = Number(Callee(k).body.body[FirstReturn(Callee(k).body.body)].argument.value)

\* source element k is a - b on two numeric literals
IsSubtraction(k) ==
    /\ js_program[k].type = "ExpressionStatement"
    /\ js_program[k].expression.type = "AdditiveExpression"
    /\ js_program[k].expression.operator = "-"
    /\ js_program[k].expression.left.type = "NumericLiteral"
    /\ js_program[k].expression.right.type = "NumericLiteral"

\* C40: a - b on two Numbers yields a Number that is at most a; the
\* evaluation neither overflows nor aborts when b > a.
C40_SubtractionStaysInRange ==
    \A k \in 1..Len(js_values) :
        IsSubtraction(k) =>
            /\ js_status = "ok"
            /\ js_values[k].type = "Number"
            /\ js_values[k].num <= js_program[k].expression.left.value
            /\ js_values[k].num >= 0

(***************************************************************************)
(* Properties of split_text                                                *)
(***************************************************************************)
\* the characters of a line that are no spaces, in order
WithoutSpaces(line) == SelectSeq(line, LAMBDA c : c # " ")

\* the lines one after the other
RECURSIVE Flatten(_)
Flatten(ls) == IF ls = <<>> THEN <<>> ELSE Head(ls) \o Flatten(Tail(ls))

\* split_text returned and its lines hold the characters of the line
ReturnedTheContent ==
    /\ spc = "returned"
    /\ WithoutSpaces(Flatten(split_lines)) = WithoutSpaces(split_line)

C32_ParseStylesheetTerminates == cpc = "done" => css_result.k # "hang"

\* C35: HtmlTokenizer::next never aborts: for every input it never reads
\* outside the input buffer and never fails the assertion of a helper that
\* the latest token is a StartTag; it returns a token or None.
C35_TokenizerNeverAborts == tpc # "panicked"

\* C37: at every step of construct_tree the stack of open elements is a
\* path in the DOM: its bottom entry is a child of the Document and every
\* other entry is a child (by its parent link) of the entry directly below.
C37_StackIsPath ==
    \A i \in 1..Len(stack_of_open_elements) :
        dom[stack_of_open_elements[i]].parent =
            IF i = 1 THEN DocumentId ELSE stack_of_open_elements[i - 1]

\* entries were popped and others pushed in their place: the stack holds
\* three entries or more and a node of the DOM that is not on it
C37_Witness ==
    /\ Len(stack_of_open_elements) >= 3
    /\ \E n \in 2..Len(dom) : \A i \in 1..Len(stack_of_open_elements) : stack_of_open_elements[i] # n
    /\ dom[stack_of_open_elements[Len(stack_of_open_elements)]].kind = "Text"

\* C36: JsLexer::next never reads past the end of the input: for every
\* input made only of supported characters, also one whose remaining text
\* is a proper prefix of a reserved word, it returns a token or None
\* without aborting.
C36_LexerNeverAborts ==
    (\A i \in 1..Len(js_input) :
         js_input[i] \in JsLetters \cup JsDigits \cup JsPunctuators \cup {"_", "$", "\"", " ", "\n"})
        => jlpc # "panicked"

(***************************************************************************)
(* Properties of the JavaScript parser                                     *)
(***************************************************************************)
\* C33: parse_ast terminates for every finite sequence of tokens: no loop
\* of function_body, parameter_list or arguments repeats without an end
C33_ParseAstTerminates == ppc # "hang"

\* a var statement without an initializer starts at the next token:
\* `var`, an identifier, and anything but '='
VarWithoutInitializer ==
    /\ PeekToken(parser_t, parser_pos) = KeywordVar
    /\ PeekToken(parser_t, parser_pos + 1).type = "Identifier"
    /\ PeekToken(parser_t, parser_pos + 2) # Punctuator("=")

\* the tokens such a statement is made of: `var`, the identifier and the ';'
\* when there is one
VarStatementLength == IF PeekToken(parser_t, parser_pos + 2) = Punctuator(";") THEN 3 ELSE 2

\* C34: parsing a var statement without an initializer consumes the `var`
\* keyword, the identifier and an optional ';' and no other token
C34_VarConsumesItsOwnTokens ==
    [][VarWithoutInitializer => parser_pos' = parser_pos + VarStatementLength]_vars

(***************************************************************************)
(* Properties of the UI                                                    *)
(***************************************************************************)
\* C38: a navigation that fails with a URL or network error does not stop
\* the UI: after handle_url returned Err the event loop is still running
C38_FailedNavigationKeepsUiRunning == last_navigation = "err" => app_status = "running"

====
